---------------------------- MODULE Spec2Model ----------------------------
(***************************************************************************)
(* Model of the batch orchestration, resumable progress, response recovery *)
(* and merge of the subtitle polisher (src/srt_polisher.py).               *)
(*                                                                         *)
(* Text is a flat sequence of tokens.  A token stands for a run of         *)
(* characters of one class, so that every regular expression of the source *)
(* can be applied to a text as the code applies it:                        *)
(*   w   a run of word characters (a = which word)                         *)
(*   d   a run of decimal digits (a = its value)                           *)
(*   p   the Chinese full stop                                             *)
(*   q   the ASCII double quote                                            *)
(*   sp  one blank                                                         *)
(*   nl  one newline                                                       *)
(*   tc  a timestamp range  HH:MM:SS,mmm --> HH:MM:SS,mmm  (a, b = times)  *)
(*   lab a label  "字幕#a:"                                                *)
(*   none  (alone in a text) Python's None                                 *)
(***************************************************************************)
EXTENDS Integers, Sequences, FiniteSets, TLC

Tok(k, a, b) == [k |-> k, a |-> a, b |-> b]
Wd(i) == Tok("w", i, 0)
Dg(n) == Tok("d", n, 0)
Pd == Tok("p", 0, 0)
Qt == Tok("q", 0, 0)
Sp == Tok("sp", 0, 0)
NL == Tok("nl", 0, 0)
Tc(s, e) == Tok("tc", s, e)
Lab(n) == Tok("lab", n, 0)
Sep(n) == Tok("sep", n, 0)
NoneTxt == <<Tok("none", 0, 0)>>

IsWs(x) == x.k \in {"sp", "nl"}

\* index of the first token at or after i that is not whitespace (\s*)
RECURSIVE SkipWs(_, _)
SkipWs(t, i) == IF i <= Len(t) /\ IsWs(t[i]) THEN SkipWs(t, i + 1) ELSE i

\* index of the first token at or after i that is not a digit run (\d+)
RECURSIVE SkipDigits(_, _)
SkipDigits(t, i) == IF i <= Len(t) /\ t[i].k = "d" THEN SkipDigits(t, i + 1) ELSE i

\* index of the last token at or before i that is not whitespace
RECURSIVE BackWs(_, _)
BackWs(t, i) == IF i >= 1 /\ IsWs(t[i]) THEN BackWs(t, i - 1) ELSE i

\* str.strip()
Strip(t) ==
    LET a == SkipWs(t, 1)
        b == BackWs(t, Len(t))
    IN  IF a > b THEN <<>> ELSE SubSeq(t, a, b)

\* str.rstrip()
RStrip(t) == SubSeq(t, 1, BackWs(t, Len(t)))

\* ^ under re.MULTILINE
AtLineStart(t, i) == i = 1 \/ t[i - 1].k = "nl"

\* The position where  \s*$  (re.MULTILINE, greedy) ends when tried at k:
\* the end of the text, or just before the last newline of the whitespace
\* run that starts at k; 0 when it does not match.
DollarAfterWs(t, k) ==
    LET r == SkipWs(t, k)
        nls == {n \in k..(r - 1) : t[n].k = "nl"}
    IN  IF r > Len(t) THEN Len(t) + 1
        ELSE IF nls = {} THEN 0
        ELSE CHOOSE n \in nls : \A m \in nls : m <= n

\* str.splitlines()
RECURSIVE SplitFrom(_, _, _)
SplitFrom(t, i, cur) ==
    IF i > Len(t) THEN (IF cur = <<>> THEN <<>> ELSE <<cur>>)
    ELSE IF t[i].k = "nl" THEN <<cur>> \o SplitFrom(t, i + 1, <<>>)
    ELSE SplitFrom(t, i + 1, Append(cur, t[i]))
SplitLines(t) == SplitFrom(t, 1, <<>>)

\* "\n".join(lines)
RECURSIVE JoinNL(_)
JoinNL(ls) ==
    IF ls = <<>> THEN <<>>
    ELSE IF Len(ls) = 1 THEN ls[1]
    ELSE ls[1] \o <<NL>> \o JoinNL(Tail(ls))

\* re.sub(r"^\s*(?:字幕\s*#?\s*\d+|#\s*\d+)\s*(?:\([^\n\)]*\))?\s*[:：]\s*", "", text, MULTILINE)
RECURSIVE SubLabelFrom(_, _)
SubLabelFrom(t, i) ==
    IF i > Len(t) THEN <<>>
    ELSE LET j == SkipWs(t, i)
         IN  IF AtLineStart(t, i) /\ j <= Len(t) /\ t[j].k = "lab"
             THEN SubLabelFrom(t, SkipWs(t, j + 1))
             ELSE <<t[i]>> \o SubLabelFrom(t, i + 1)
SubLabel(t) == SubLabelFrom(t, 1)

\* re.sub(r"^\s*\d{2}:\d{2}:\d{2},\d{3}\s*-->\s*\d{2}:\d{2}:\d{2},\d{3}\s*$", "", text, MULTILINE)
RECURSIVE SubTcLineFrom(_, _)
SubTcLineFrom(t, i) ==
    IF i > Len(t) THEN <<>>
    ELSE LET j == SkipWs(t, i)
             m == IF j <= Len(t) /\ t[j].k = "tc" THEN DollarAfterWs(t, j + 1) ELSE 0
         IN  IF AtLineStart(t, i) /\ m # 0
             THEN SubTcLineFrom(t, m)
             ELSE <<t[i]>> \o SubTcLineFrom(t, i + 1)
SubTcLine(t) == SubTcLineFrom(t, 1)

\* re.sub(r"\s*\d{2}:\d{2}:\d{2},\d{3}\s*-->\s*\d{2}:\d{2}:\d{2},\d{3}\s*", " ", text)
RECURSIVE SubTcFrom(_, _)
SubTcFrom(t, i) ==
    IF i > Len(t) THEN <<>>
    ELSE LET j == SkipWs(t, i)
         IN  IF j <= Len(t) /\ t[j].k = "tc"
             THEN <<Sp>> \o SubTcFrom(t, SkipWs(t, j + 1))
             ELSE <<t[i]>> \o SubTcFrom(t, i + 1)
SubTc(t) == SubTcFrom(t, 1)

\* re.sub(r"^\s*\d+\s*$", "", text, MULTILINE)
RECURSIVE SubDigitLineFrom(_, _)
SubDigitLineFrom(t, i) ==
    IF i > Len(t) THEN <<>>
    ELSE LET j == SkipWs(t, i)
             m == IF j <= Len(t) /\ t[j].k = "d"
                  THEN DollarAfterWs(t, SkipDigits(t, j)) ELSE 0
         IN  IF AtLineStart(t, i) /\ m # 0
             THEN SubDigitLineFrom(t, m)
             ELSE <<t[i]>> \o SubDigitLineFrom(t, i + 1)
SubDigitLine(t) == SubDigitLineFrom(t, 1)

\* re.sub(r"\n\s*\n", "\n", text)
RECURSIVE SubBlankRunFrom(_, _)
SubBlankRunFrom(t, i) ==
    IF i > Len(t) THEN <<>>
    ELSE LET r == SkipWs(t, i + 1)
             nls == {n \in (i + 1)..(r - 1) : t[n].k = "nl"}
         IN  IF t[i].k = "nl" /\ nls # {}
             THEN <<NL>> \o SubBlankRunFrom(t, (CHOOSE n \in nls : \A m \in nls : m <= n) + 1)
             ELSE <<t[i]>> \o SubBlankRunFrom(t, i + 1)
SubBlankRun(t) == SubBlankRunFrom(t, 1)

\* re.sub(r"^\s+|\s+$", "", text, MULTILINE)
RECURSIVE SubLineEdgesFrom(_, _)
SubLineEdgesFrom(t, i) ==
    IF i > Len(t) THEN <<>>
    ELSE IF ~IsWs(t[i]) THEN <<t[i]>> \o SubLineEdgesFrom(t, i + 1)
    ELSE IF AtLineStart(t, i) THEN SubLineEdgesFrom(t, SkipWs(t, i))
    ELSE LET m == DollarAfterWs(t, i)
         IN  IF m > i THEN SubLineEdgesFrom(t, m)
             ELSE <<t[i]>> \o SubLineEdgesFrom(t, i + 1)
SubLineEdges(t) == SubLineEdgesFrom(t, 1)

\* re.sub(r"\n{3,}", "\n\n", text)
RECURSIVE SkipNL(_, _)
SkipNL(t, i) == IF i <= Len(t) /\ t[i].k = "nl" THEN SkipNL(t, i + 1) ELSE i
RECURSIVE SubNL3From(_, _)
SubNL3From(t, i) ==
    IF i > Len(t) THEN <<>>
    ELSE LET r == SkipNL(t, i)
         IN  IF r - i >= 3 THEN <<NL, NL>> \o SubNL3From(t, r)
             ELSE <<t[i]>> \o SubNL3From(t, i + 1)
SubNL3(t) == SubNL3From(t, 1)

\* _strip_wrapping_ascii_quotes(line)
StripWrappingQuotes(line) ==
    LET s == Strip(line)
    IN  IF Len(s) >= 2 /\ s[1] = Qt /\ s[Len(s)] = Qt
        THEN Strip(SubSeq(s, 2, Len(s) - 1))
        ELSE s

\* index after skipping the closers at the end of s, scanning backwards
RECURSIVE BackClosers(_, _)
BackClosers(s, i) == IF i > 0 /\ s[i] = Qt THEN BackClosers(s, i - 1) ELSE i

\* re.search(r"[\w\u4e00-\u9fff]", s): labels and timestamps hold word characters too
HasWord(s) == \E n \in 1..Len(s) : s[n].k \in {"w", "d", "lab", "tc"}

\* strip_one_line(line) of _strip_terminal_chinese_periods
StripOneLine(line) ==
    LET s == RStrip(line)
        i == BackClosers(s, Len(s))
        candidate == RStrip(SubSeq(s, 1, i - 1) \o SubSeq(s, i + 1, Len(s)))
    IN  IF s = <<>> THEN line
        ELSE IF i > 0 /\ s[i] = Pd /\ HasWord(candidate) THEN candidate
        ELSE s

\* SRTPolisher._strip_terminal_chinese_periods
StripTerminalChinesePeriods(t) ==
    IF t = <<>> THEN t
    ELSE JoinNL([n \in 1..Len(SplitLines(t)) |-> StripOneLine(SplitLines(t)[n])])

\* "\n".join(_strip_wrapping_ascii_quotes(l) for l in result.splitlines())
StripWrappingQuotesLines(t) ==
    JoinNL([n \in 1..Len(SplitLines(t)) |-> StripWrappingQuotes(SplitLines(t)[n])])

\* re.sub(r"===SUBTITLE_SEPARATOR[_\d]*===", "", result)
NotSeparator(x) == x.k # "sep"
SubSeparator(t) == SelectSeq(t, NotSeparator)

\* SRTPolisher.clean_polished_content
CleanPolishedContent(content) ==
    IF content = NoneTxt \/ content = <<>> THEN <<>>
    ELSE LET r1 == SubLabel(SubSeparator(Strip(content)))
             r2 == SubTc(SubTcLine(r1))
             r3 == StripWrappingQuotesLines(r2)
             r4 == SubDigitLine(r3)
             r5 == SubLineEdges(SubBlankRun(r4))
         IN  Strip(StripTerminalChinesePeriods(r5))

\* the second cleaning pass of SRTPolisher.write_srt_entries
WriteClean(text) ==
    Strip(SubNL3(SubDigitLine(SubSeparator(SubTc(SubLabel(text))))))

\* _bad(text) of polish_subtitle_batch
BadLine(line) ==
    LET j == SkipWs(line, 1)
    IN  j <= Len(line) /\ line[j].k = "d" /\ SkipWs(line, SkipDigits(line, j)) > Len(line)

Bad(text) ==
    \/ text = NoneTxt
    \/ \E n \in 1..Len(text) : text[n].k \in {"tc", "lab"}
    \/ \E n \in 1..Len(SplitLines(text)) : BadLine(SplitLines(text)[n])

(***************************************************************************)
(* Records and files.  A file is the token sequence of its characters: the *)
(* number line of record n is the digit run Dg(n) and its timestamp line   *)
(* is Tc(start, end).                                                      *)
(***************************************************************************)

\* SRTEntry.__init__: the content is stripped
SRTEntry(number, start, end, content) ==
    [number |-> number, start_time |-> start, end_time |-> end, content |-> Strip(content)]

\* SRTEntry.to_string
to_string(e) ==
    <<Dg(e.number), NL, Tc(e.start_time, e.end_time), NL>> \o e.content \o <<NL>>

\* the cleaning loop of write_srt_entries
CleanedEntry(e) == SRTEntry(e.number, e.start_time, e.end_time, WriteClean(e.content))

\* what write_srt_entries has put in the file after writing the first n entries
RECURSIVE FilePrefix(_, _)
FilePrefix(es, n) ==
    IF n = 0 THEN <<>>
    ELSE FilePrefix(es, n - 1) \o to_string(CleanedEntry(es[n]))
         \o (IF n < Len(es) THEN <<NL>> ELSE <<>>)

\* SRTPolisher.write_srt_entries, the complete file
WriteSrtEntries(es) == FilePrefix(es, Len(es))

\* int(match.group(1)) for the digit run t[i..j-1], one decimal digit a token
RECURSIVE IntOf(_, _, _)
IntOf(t, i, j) == IF j <= i THEN 0 ELSE IntOf(t, i, j - 1) * 10 + t[j - 1].a

\* One attempt of SRT_PATTERN at position i of the text t.
\*   (\d+)\s*\n  TS\s*-->\s*TS  \s*\n  ((?:.+(?:\n|$))+?)  (?:\n|$)
\* (\d+ also matches the millisecond digits that end a timestamp range; the
\* model's timestamps are whole seconds, so that number is 0.)
MatchAt(t, i) ==
    LET j == IF i <= Len(t) /\ t[i].k = "tc" THEN i + 1 ELSE SkipDigits(t, i)
        k == SkipWs(t, j)
        m == SkipWs(t, k + 1)
        starts == {n \in (k + 1)..(m - 1) :
                     t[n].k = "nl" /\ n + 1 <= Len(t) /\ t[n + 1].k # "nl"}
        c == (CHOOSE n \in starts : \A x \in starts : x <= n) + 1
        ends == {n \in c..Len(t) : t[n].k = "nl" /\ (n = Len(t) \/ t[n + 1].k = "nl")}
        e == CHOOSE n \in ends : \A x \in ends : n <= x
    IN  IF /\ i <= Len(t) /\ t[i].k \in {"d", "tc"}
           /\ k <= Len(t) /\ t[k].k = "tc" /\ k - 1 >= j /\ t[k - 1].k = "nl"
           /\ starts # {}
           /\ ends # {}
        THEN [ok |-> TRUE,
              entry |-> SRTEntry(IF t[i].k = "tc" THEN 0 ELSE IntOf(t, i, j), t[k].a, t[k].b, SubSeq(t, c, e)),
              next |-> IF e = Len(t) THEN e + 1 ELSE e + 2]
        ELSE [ok |-> FALSE, entry |-> SRTEntry(0, 0, 0, <<>>), next |-> i + 1]

\* SRT_PATTERN.finditer(content)
RECURSIVE FindIter(_, _)
FindIter(t, i) ==
    IF i > Len(t) THEN <<>>
    ELSE LET r == MatchAt(t, i)
         IN  IF r.ok THEN <<r.entry>> \o FindIter(t, r.next)
             ELSE FindIter(t, i + 1)

\* SRTPolisher.parse_srt_file, applied to the file's content
ParseSrtFile(content) ==
    FindIter(IF content # <<>> /\ content[Len(content)].k = "nl"
             THEN content ELSE content \o <<NL>>, 1)

(***************************************************************************)
(* Bounds of the model and the inputs drawn from them.                     *)
(***************************************************************************)
MaxLen == 3          \* records in the input file
MaxResumeLen == 2    \* records in the input file of a job that is run again
MaxBatchSize == 3    \* SRTPolisher.batch_size
MaxWorkers == 2      \* SRTPolisher.max_workers
MaxRuns == 2         \* runs of polish_srt_file on the same output path

\* the retry ceiling of a batch ("retry_count < 10")
MaxBatchRetries == 10

\* the temperature the caller supplies to SRTPolisher, in tenths (0.3)
CallerTemperature == 3

\* texts of input records: a word, a word with a full stop, a digits-only line
InputTexts == << <<Wd(1)>>, <<Wd(1), Pd>>, <<Dg(7)>> >>
PlainTexts == << <<Wd(1)>> >>

\* texts of the records of a correction job: the first has a blank between
\* two Chinese words, which the formatter takes out
CorrectorTexts == << <<Wd(1), Sp, Wd(1)>>, <<Wd(1), Pd>>, <<Dg(7)>> >>

\* texts of a correction job in which every record holds a word
CorrectorWordTexts == << <<Wd(1), Sp, Wd(1)>>, <<Wd(1), Pd>>, <<Wd(5)>> >>

\* the record at index i (1-based) of an input that takes its texts in turn
\* from texts: numbers are source-defined and not contiguous, spans are two
\* seconds
InputRecord(i, texts) ==
    [number |-> 2 * i - 1, start_time |-> 2 * (i - 1), end_time |-> 2 * i,
     content |-> texts[((i - 1) % Len(texts)) + 1]]

\* the canonical rendering of the input records
RECURSIVE InputFile(_, _)
InputFile(n, texts) ==
    IF n = 0 THEN <<>>
    ELSE InputFile(n - 1, texts) \o (IF n > 1 THEN <<NL>> ELSE <<>>)
         \o to_string(InputRecord(n, texts))

\* input record i with full stops for the commas of its timestamp line
\* (Wd(9) is that line): SRT_PATTERN matches nothing at this record
BrokenRecord(i, texts) ==
    <<Dg(InputRecord(i, texts).number), NL, Wd(9), NL>>
        \o InputRecord(i, texts).content \o <<NL>>

\* the input file of n records whose record at index bad is broken
RECURSIVE DamagedInputFile(_, _, _)
DamagedInputFile(n, texts, bad) ==
    IF n = 0 THEN <<>>
    ELSE DamagedInputFile(n - 1, texts, bad) \o (IF n > 1 THEN <<NL>> ELSE <<>>)
         \o (IF n = bad THEN BrokenRecord(n, texts) ELSE to_string(InputRecord(n, texts)))

\* the damaged input files of which at least one record parses
DamagedFiles == {DamagedInputFile(n, InputTexts, bad) : n \in 2..MaxLen, bad \in 1..MaxLen}
                   \ {InputFile(n, InputTexts) : n \in 2..MaxLen}

\* Chunks a response can hold.  Wd(2) is polished text; Wd(3) occurs only in
\* the chunk that carries a timestamp range.
ChunkOk == <<Wd(2)>>
ChunkTimecode == <<Wd(3), Sp, Tc(8, 9), Sp, Wd(3)>>
ChunkQuotes == <<Qt, Qt>>
ChunkEmpty == <<>>
Chunks == {ChunkOk, ChunkTimecode, ChunkQuotes, ChunkEmpty}

Resp(t, a) == [t |-> t, a |-> a]

\* the one answer of a service whose answer depends on the records of the
\* request only: text that is no array for two records, else the array of
\* the polished texts
FixedBatchAnswer(n) ==
    IF n = 2 THEN Resp("text", <<>>) ELSE Resp("arr", [i \in 1..n |-> ChunkOk])

FixedSingleAnswer == Resp("text", <<ChunkOk>>)

\* TranslationAPI.translate for a request of n records: it raises, returns
\* None, returns text that is no JSON array (one line without a separator,
\* a |-> <<>>, or n polished texts with a line "---" between them), or a
\* JSON array of strings (of the requested length, or one element short).  A "silent" service yields
\* no result for every call, a "clean" one always an array of n chunks that
\* _bad accepts, a "plain" one raises, returns None or returns the array of
\* polished texts, a "fixed" one gives the same answer to the same request.
BatchResponses(n, svc) ==
    CASE svc = "fixed" -> {FixedBatchAnswer(n)}
      [] svc = "silent" -> {Resp("exc", <<>>), Resp("none", <<>>)}
      [] svc = "clean" -> {Resp("arr", a) : a \in [1..n -> {c \in Chunks : ~Bad(c)}]}
      [] svc = "plain" -> {Resp("exc", <<>>), Resp("none", <<>>),
                           Resp("arr", [i \in 1..n |-> ChunkOk])}
      [] OTHER -> {Resp("exc", <<>>), Resp("none", <<>>), Resp("text", <<>>),
                   Resp("text", [i \in 1..n |-> ChunkOk]),
                   Resp("arr", [i \in 1..(n - 1) |-> ChunkOk])}
                  \cup {Resp("arr", a) : a \in [1..n -> Chunks]}

\* TranslationAPI.translate for a single record: it raises, returns None or
\* returns the raw text
SingleResponses(svc) ==
    CASE svc = "fixed" -> {FixedSingleAnswer}
      [] svc = "silent" -> {Resp("exc", <<>>), Resp("none", <<>>), Resp("text", <<ChunkEmpty>>)}
      [] svc = "clean" -> {Resp("text", <<c>>) : c \in {c \in Chunks : ~Bad(c)}}
      [] svc = "plain" -> {Resp("exc", <<>>), Resp("none", <<>>), Resp("text", <<ChunkOk>>)}
      [] OTHER -> {Resp("exc", <<>>), Resp("none", <<>>)}
                  \cup {Resp("text", <<c>>) : c \in Chunks}

(***************************************************************************)
(* polish_subtitle_batch                                                   *)
(***************************************************************************)

\* _parse_json_array(text, expected)
ParseJsonArray(r, expected) ==
    IF r.t = "arr" /\ Len(r.a) = expected
    THEN [ok |-> TRUE, arr |-> [i \in 1..expected |-> Strip(r.a[i])]]
    ELSE [ok |-> FALSE, arr |-> <<>>]

\* polished_contents = [None] * len(batch_entries)
AllNone(n) == [i \in 1..n |-> NoneTxt]

\* lines 811 and 819-820: the chunks after the strict request
StrictContents(r, n) ==
    IF ParseJsonArray(r, n).ok THEN ParseJsonArray(r, n).arr ELSE AllNone(n)

\* the text of an answer of one line without a separator
RawLine == <<Wd(4)>>

NotBlank(part) == Strip(part) # <<>>

\* parse_polished_result on a text answer: the parts between the separators
\* when there are expected_count of them that are not blank; else, the
\* answer having fewer lines than expected_count, the whole text for every
\* record
parse_polished_result(r, expected_count) ==
    LET parts == SelectSeq(r.a, NotBlank)
    IN  IF Len(parts) = expected_count
        THEN [i \in 1..expected_count |-> Strip(parts[i])]
        ELSE [i \in 1..expected_count |-> RawLine]

\* lines 840-842 and 874-882: fall back to the original content where the
\* chunk is None or empty, then build the polished entries
PolishedEntries(es, s, contents) ==
    [i \in 1..Len(contents) |->
        LET e == es[s + i]
            c == IF contents[i] = NoneTxt \/ contents[i] = <<>>
                 THEN e.content ELSE contents[i]
        IN  SRTEntry(e.number, e.start_time, e.end_time, CleanPolishedContent(c))]

\* analyze_subtitle_context(entries, target_idx), the keys prev_content and
\* next_content of its result (target_idx counts from 0)
AnalyzeSubtitleContext(es, target_idx) ==
    [has_prev |-> target_idx > 0,
     prev_content |-> IF target_idx > 0 THEN es[target_idx].content ELSE <<>>,
     has_next |-> target_idx < Len(es) - 1,
     next_content |-> IF target_idx < Len(es) - 1 THEN es[target_idx + 2].content ELSE <<>>]

\* a section of the context string: its label, the number the label shows
\* and the text after it
Section(tag, number, content) == [tag |-> tag, number |-> number, content |-> content]

\* the context string of the single-record request, lines 693-703, as the
\* sequence of its sections
SingleContext(es, start_idx) ==
    LET entry == es[start_idx + 1]
        context_info == AnalyzeSubtitleContext(es, start_idx)
    IN  (IF context_info.has_prev
         THEN <<Section("prev", entry.number - 1, context_info.prev_content)>> ELSE <<>>)
        \o <<Section("current", entry.number, entry.content)>>
        \o (IF context_info.has_next
            THEN <<Section("next", entry.number + 1, context_info.next_content)>> ELSE <<>>)
        \o <<Section("reminder", 0, <<>>)>>

\* the single-record path, lines 670-729
SingleResult(es, s, r) ==
    LET e == es[s + 1]
    IN  IF r.t = "exc" THEN <<e>>
        ELSE <<SRTEntry(e.number, e.start_time, e.end_time,
                        CleanPolishedContent(IF r.t = "none" THEN NoneTxt ELSE r.a[1]))>>

\* a split whose second half starts one record late
SplitFramesSkipping(f) ==
    LET mid == (f.s + f.e) \div 2
    IN  <<[s |-> f.s, e |-> mid], [s |-> mid + 1, e |-> f.e]>>

\* mid_point = (start_idx + end_idx) // 2 and the two recursive calls
SplitFrames(f) ==
    LET mid == (f.s + f.e) \div 2
    IN  <<[s |-> f.s, e |-> mid], [s |-> mid, e |-> f.e]>>

(***************************************************************************)
(* Files, the progress store and the merge.                                *)
(***************************************************************************)

\* a file of the output directory; full and by record whether the last
\* write ran to its end and which run made it
NoFile == [exists |-> FALSE, content |-> <<>>, full |-> FALSE, by |-> 0]
File(content, full, by) == [exists |-> TRUE, content |-> content, full |-> full, by |-> by]

\* total_batches = (len(entries) + self.batch_size - 1) // self.batch_size
\* a count of the batches that leaves out the last, shorter one
TotalBatchesRoundedDown(es, bs) == Len(es) \div bs

TotalBatches(es, bs) == (Len(es) + bs - 1) \div bs

\* batch_start and batch_end of process_batch
BatchStart(b, bs) == (b - 1) * bs
BatchEnd(es, b, bs) == IF BatchStart(b, bs) + bs < Len(es) THEN BatchStart(b, bs) + bs ELSE Len(es)

\* ProgressManager.recover_from_batch_files: the persisted completed set
\* joined with the batches whose artifact is found by directory listing
RecoverFromBatchFiles(pf, files, total) ==
    {k \in 1..total : k \in pf \/ files[k].exists}

\* ProgressManager.get_remaining_batches, ascending
RECURSIVE RemainingFrom(_, _, _)
RemainingFrom(k, total, done) ==
    IF k > total THEN <<>>
    ELSE (IF k \in done THEN <<>> ELSE <<k>>) \o RemainingFrom(k + 1, total, done)
GetRemainingBatches(total, done) == RemainingFrom(1, total, done)

\* all_entries.sort(key=lambda entry: entry.number), a stable sort
RECURSIVE InsertByNumber(_, _)
InsertByNumber(sorted, e) ==
    IF sorted = <<>> THEN <<e>>
    ELSE IF sorted[Len(sorted)].number <= e.number THEN Append(sorted, e)
    ELSE Append(InsertByNumber(SubSeq(sorted, 1, Len(sorted) - 1), e), sorted[Len(sorted)])
RECURSIVE SortByNumber(_)
SortByNumber(es) ==
    IF es = <<>> THEN <<>>
    ELSE InsertByNumber(SortByNumber(SubSeq(es, 1, Len(es) - 1)), es[Len(es)])

\* the loop of merge_batch_files over the batch files that exist
RECURSIVE ReadBatchFiles(_, _, _)
ReadBatchFiles(files, k, total) ==
    IF k > total THEN <<>>
    ELSE (IF files[k].exists THEN ParseSrtFile(files[k].content) ELSE <<>>)
         \o ReadBatchFiles(files, k + 1, total)

\* merge_batch_files: the content written to the output file
MergeBatchFiles(files, total) ==
    WriteSrtEntries(SortByNumber(ReadBatchFiles(files, 1, total)))

\* the dictionaries of auto_verify_result: the last record of a number wins
LastOf(es, n) ==
    es[CHOOSE i \in 1..Len(es) : es[i].number = n /\ \A j \in (i + 1)..Len(es) : es[j].number # n]
Numbers(es) == {es[i].number : i \in 1..Len(es)}

\* a comparison of the start times only
TimeMismatchesStartOnly(src, dst) ==
    {n \in Numbers(src) \cap Numbers(dst) :
        LastOf(src, n).start_time # LastOf(dst, n).start_time}

\* time_mismatches of auto_verify_result: the numbers of both files whose
\* start or end time differs
TimeMismatches(src, dst) ==
    {n \in Numbers(src) \cap Numbers(dst) :
        \/ LastOf(src, n).start_time # LastOf(dst, n).start_time
        \/ LastOf(src, n).end_time # LastOf(dst, n).end_time}

\* auto_verify_result: self.last_verify_summary
AutoVerifyResult(original, polished) ==
    LET src == ParseSrtFile(original)
        dst == ParseSrtFile(polished)
        missing == Numbers(src) \ Numbers(dst)
        extra == Numbers(dst) \ Numbers(src)
        mism == TimeMismatches(src, dst)
    IN  [perfect |-> Len(src) = Len(dst) /\ missing = {} /\ extra = {} /\ mism = {},
         total_source |-> Len(src), total_translated |-> Len(dst),
         time_mismatch_count |-> Cardinality(mism),
         missing_count |-> Cardinality(missing), extra_count |-> Cardinality(extra)]
NoSummary ==
    [perfect |-> FALSE, total_source |-> 0, total_translated |-> 0,
     time_mismatch_count |-> 0, missing_count |-> 0, extra_count |-> 0]

\* check_srt_files without the test of the timestamps
CheckSrtFilesIgnoringTimes(source_file, translated_file) ==
    LET src == ParseSrtFile(source_file)
        dst == ParseSrtFile(translated_file)
    IN  /\ Len(src) = Len(dst)
        /\ \A i \in 1..Len(dst) : dst[i].number \in Numbers(src)
        /\ Numbers(src) \ Numbers(dst) = {}

\* check_srt_files of srt_checker.py, its return value perfect_match: the
\* counts are equal, every record of the translated file has its number in
\* source_dict (the last source record of that number) with the same start
\* and end, and no source number is missing from the translated file
CheckSrtFiles(source_file, translated_file) ==
    LET src == ParseSrtFile(source_file)
        dst == ParseSrtFile(translated_file)
    IN  /\ Len(src) = Len(dst)
        /\ \A i \in 1..Len(dst) :
              /\ dst[i].number \in Numbers(src)
              /\ LastOf(src, dst[i].number).start_time = dst[i].start_time
              /\ LastOf(src, dst[i].number).end_time = dst[i].end_time
        /\ Numbers(src) \ Numbers(dst) = {}

(***************************************************************************)
(* The corrector: formatting and the parsing of a batch answer.  The texts *)
(* of the model are lines of at most 35 characters, which _smart_line_break *)
(* leaves as they are.                                                     *)
(***************************************************************************)

\* the members of a sequence that are not empty
RECURSIVE NonEmpty(_)
NonEmpty(ls) ==
    IF ls = <<>> THEN <<>>
    ELSE (IF Head(ls) = <<>> THEN <<>> ELSE <<Head(ls)>>) \o NonEmpty(Tail(ls))

\* ' '.join(lines)
RECURSIVE JoinSp(_)
JoinSp(ls) ==
    IF ls = <<>> THEN <<>>
    ELSE IF Len(ls) = 1 THEN ls[1]
    ELSE ls[1] \o <<Sp>> \o JoinSp(Tail(ls))

\* _clean_extra_newlines: the stripped non-empty lines joined by a space
CleanExtraNewlines(t) ==
    JoinSp(NonEmpty([n \in 1..Len(SplitLines(t)) |-> Strip(SplitLines(t)[n])]))

\* the first token that is no space, going right from i or left from i
RECURSIVE SkipSp(_, _)
SkipSp(t, i) == IF i <= Len(t) /\ t[i].k = "sp" THEN SkipSp(t, i + 1) ELSE i
RECURSIVE BackSp(_, _)
BackSp(t, i) == IF i >= 1 /\ t[i].k = "sp" THEN BackSp(t, i - 1) ELSE i

\* t without the tokens at the indices in drop
RECURSIVE DropFrom(_, _, _)
DropFrom(t, i, drop) ==
    IF i > Len(t) THEN <<>>
    ELSE (IF i \in drop THEN <<>> ELSE <<t[i]>>) \o DropFrom(t, i + 1, drop)
Drop(t, drop) == DropFrom(t, 1, drop)

\* a token that ends, or begins, with a CJK character
CjkRight(x) == x.k = "w"
CjkLeft(x) == x.k \in {"w", "lab"}

\* _remove_extra_spaces on one line: strip, fold white space into one
\* space, drop the spaces between CJK characters
RemoveSpacesLine(line) ==
    LET a == Strip(line)
        b == Drop(a, {i \in 2..Len(a) : a[i].k = "sp" /\ a[i - 1].k = "sp"})
    IN  Drop(b, {i \in 1..Len(b) :
                    /\ b[i].k = "sp"
                    /\ BackSp(b, i) >= 1 /\ CjkRight(b[BackSp(b, i)])
                    /\ SkipSp(b, i) <= Len(b) /\ CjkLeft(b[SkipSp(b, i)])})

\* _remove_extra_spaces
RemoveExtraSpaces(t) ==
    JoinNL(NonEmpty([n \in 1..Len(SplitLines(t)) |-> RemoveSpacesLine(SplitLines(t)[n])]))

\* r'([，。！？；：、])([A-Za-z0-9])' -> r'\1 \2'
RECURSIVE SpaceAfterPunct(_, _)
SpaceAfterPunct(t, i) ==
    IF i > Len(t) THEN <<>>
    ELSE (IF t[i].k = "p" /\ i < Len(t) /\ t[i + 1].k \in {"d", "tc"}
          THEN <<t[i], Sp>> ELSE <<t[i]>>) \o SpaceAfterPunct(t, i + 1)

\* _normalize_punctuation: no space before a punctuation mark, one after it
\* before a letter or digit, none around a quotation mark
NormalizePunctuation(t) ==
    LET SpBefore(x, k) ==
            {i \in 1..Len(x) : x[i].k = "sp" /\ SkipSp(x, i) <= Len(x) /\ x[SkipSp(x, i)].k = k}
        a == SpaceAfterPunct(Drop(t, SpBefore(t, "p")), 1)
        b == Drop(a, SpBefore(a, "q"))
    IN  Drop(b, {i \in 1..Len(b) : b[i].k = "sp" /\ BackSp(b, i) >= 1 /\ b[BackSp(b, i)].k = "q"})

\* SubtitleFormatter.format_subtitle_content with the default options
FormatSubtitleContent(content) ==
    IF content = <<>> THEN content
    ELSE Strip(NormalizePunctuation(RemoveExtraSpaces(CleanExtraNewlines(content))))

\* _needs_correction: the text holds a letter of some language
NeedsCorrection(t) == \E n \in 1..Len(t) : t[n].k \in {"w", "lab"}

\* _clean_corrected_text: strip, take off a pair of wrapping quotation marks
CleanCorrectedText(t) ==
    LET a == Strip(t)
    IN  IF a # <<>> /\ a[1] = Qt /\ a[Len(a)] = Qt
        THEN Strip(SubSeq(a, 2, Len(a) - 1)) ELSE a

\* the retries of a batch in _process_single_true_batch
MAX_BATCH_RETRIES == 5

\* What a chunk of a batch answer can be: the corrected text, nothing, or
\* the corrected text followed by a blank line and a record of its own with
\* the number of the first input record (Wd(3) is text only it carries).
CorrectedOk == <<Wd(2)>>
CorrectedWithRecord == <<Wd(2), NL, NL, Dg(1), NL, Tc(8, 9), NL, Wd(3)>>
CorrectedChunks == {CorrectedOk, <<>>, CorrectedWithRecord}

\* separator.format(index=index) of correct_batch_texts and _parse_batch_result:
\* the marker ===SUBTITLE_SEPARATOR_index=== on a line of its own
Separator(index) == <<NL, Sep(index), NL>>

\* str.find: the first position at or after i where pat starts in t, 0 if none
RECURSIVE FindSub(_, _, _)
FindSub(t, pat, i) ==
    IF i + Len(pat) - 1 > Len(t) THEN 0
    ELSE IF SubSeq(t, i, i + Len(pat) - 1) = pat THEN i
    ELSE FindSub(t, pat, i + 1)

\* str.split(pat, 1)
SplitOnce(t, pat) ==
    LET i == FindSub(t, pat, 1)
    IN  IF i = 0 THEN <<t>>
        ELSE <<SubSeq(t, 1, i - 1), SubSeq(t, i + Len(pat), Len(t))>>

\* the chunks of an answer joined by the separators the request asks for
RECURSIVE CombinedContent(_, _)
CombinedContent(chunks, i) ==
    IF i > Len(chunks) THEN <<>>
    ELSE (IF i > 1 THEN Separator(i - 1) ELSE <<>>) \o chunks[i]
         \o CombinedContent(chunks, i + 1)

\* The contents a service can answer a batch of n texts with: a chunk for
\* each text between the separators in their order, and for three texts an
\* answer without the first separator and one with the separators swapped.
BatchAnswers(n) ==
    {CombinedContent(a, 1) : a \in [1..n -> CorrectedChunks]}
    \cup (IF n = 3
          THEN {CorrectedOk \o Separator(2) \o CorrectedOk,
                CorrectedOk \o Separator(2) \o CorrectedOk \o Separator(1) \o CorrectedOk}
          ELSE {})

\* CorrectionAPI.correct_batch_texts for n entries: an exception it does not
\* catch, a list of None (the request failed for good, or the answer had no
\* choices), or the stripped content of the answer (line 214)
CorrectorOutcomes(n) ==
    {Resp("exc", <<>>), Resp("none", <<>>)}
    \cup {Resp("answer", Strip(a)) : a \in BatchAnswers(n)}

\* corrected_contents of _parse_batch_result (lines 242-271): the text up to
\* separator i, stripped, for every entry but the last, the rest of the text
\* for the last; nothing is left once a separator is not found
RECURSIVE CorrectedContents(_, _, _)
CorrectedContents(remaining, i, n) ==
    IF i = n THEN <<Strip(remaining)>>
    ELSE LET parts == SplitOnce(remaining, Separator(i))
         IN  <<Strip(parts[1])>>
             \o CorrectedContents(IF Len(parts) > 1 THEN parts[2] ELSE <<>>, i + 1, n)

\* _parse_batch_result: each part cleaned, the entry's content where a part
\* is empty
ParseBatchResult(corrected_batch, need) ==
    LET parts == CorrectedContents(corrected_batch, 1, Len(need))
    IN  [i \in 1..Len(need) |->
            IF parts[i] # <<>> THEN CleanCorrectedText(parts[i])
            ELSE need[i].content]

\* the entries of a sequence that Test accepts
RECURSIVE NeedFrom(_, _, _)
NeedFrom(es, i, want) ==
    IF i > Len(es) THEN <<>>
    ELSE (IF NeedsCorrection(es[i].content) = want THEN <<es[i]>> ELSE <<>>)
         \o NeedFrom(es, i + 1, want)

\* formatted_batch of _process_single_true_batch
FormattedBatch(batch) ==
    [i \in 1..Len(batch) |->
        SRTEntry(batch[i].number, batch[i].start_time, batch[i].end_time,
                 FormatSubtitleContent(batch[i].content))]

\* lines 834-856: an entry with the corrected text where there is one, the
\* formatted entry where there is none, then the entries that needed no
\* correction
CorrectedBatchEntries(batch, results) ==
    LET need == NeedFrom(FormattedBatch(batch), 1, TRUE)
    IN  [i \in 1..Len(need) |->
            IF results[i] = NoneTxt THEN need[i]
            ELSE SRTEntry(need[i].number, need[i].start_time, need[i].end_time, results[i])]
        \o NeedFrom(FormattedBatch(batch), 1, FALSE)

\* _write_srt_file: the entries as they are, a blank line between them
RECURSIVE WriteSrtFile(_)
WriteSrtFile(es) ==
    IF es = <<>> THEN <<>>
    ELSE to_string(Head(es)) \o (IF Len(es) > 1 THEN <<NL>> ELSE <<>>) \o WriteSrtFile(Tail(es))

(***************************************************************************)
(* The polishing job as a state machine.                                   *)
(***************************************************************************)
VARIABLES
    input_file,     \* content of the input file
    batch_size,     \* SRTPolisher.batch_size
    max_workers,    \* SRTPolisher.max_workers
    service,        \* the responses the remote service can give
    max_runs,       \* how often the job is run on the same output path
    run,            \* number of the current run of polish_srt_file
    resume,         \* the resume argument of the current run
    phase,          \* "init", "workers", "merged", "returned" (polish_srt_file
                    \* returned True), "failed" (it returned False) or "killed"
    entries,        \* entries parsed from the input file by the current run
    completed,      \* ProgressManager.completed_batches of the current run
    progress_file,  \* completed batches persisted in the progress file
    batch_files,    \* the batch artifact files, by batch number
    output_file,    \* the merged output file
    queue,          \* batches submitted and not yet taken by a worker
    wk,             \* the worker threads
    last_verify_summary,
    corrector,      \* the state of a correction job
    hist,           \* what the current run has done so far, and the output
                    \* the previous run left behind
    client,         \* one call of the corrector's API client
    review,         \* the review session of the GUI
    repair,         \* auto_fix_and_repolish of the GUI, while it runs
    job,            \* the worker process of a job and the messages it has put
    bilingual,      \* a call of convert_to_bilingual and its stop event
    temperature     \* translation_api.temperature, in tenths

vars == <<input_file, batch_size, max_workers, service, max_runs, run, resume, phase, entries,
          completed, progress_file, batch_files, output_file, queue, wk,
          last_verify_summary, corrector, hist, client, review, repair, job, bilingual, temperature>>

config == <<input_file, batch_size, max_workers, service, max_runs, corrector, client, review,
           repair, job, bilingual>>

IdleWorker == [pc |-> "idle", batch |-> 0, work |-> <<>>, retry |-> 0,
               result |-> <<>>, wpos |-> 0, orig_temp |-> 0]

IdleCorrector ==
    [pc |-> "idle", batch |-> 0, attempt |-> 0, pending |-> <<>>, reg |-> 0, then |-> "return"]

\* SRTCorrector.stats after __init__ (formatted_entries is left out)
NoStats ==
    [total_entries |-> 0, corrected_entries |-> 0, error_entries |-> 0, unchanged_entries |-> 0]

\* no call of the API client is in progress
IdleClient == [pc |-> "idle", single |-> FALSE, n |-> 0, attempt |-> 0, requests |-> 0,
               failures |-> <<>>, waits |-> <<>>, result |-> [t |-> "pending", a |-> <<>>]]

\* auto_fix_and_repolish is not running
\* convert_to_bilingual is not running
NoConversion ==
    [pc |-> "off", original |-> 0, translated |-> 0, before |-> "absent",
     output_file |-> "absent", stop_event |-> FALSE, completed |-> 0, valid |-> 0,
     result |-> "none", opened |-> "no"]

\* no worker process has been started
NoJob == [pc |-> "off", kind |-> "none", queue |-> <<>>]

NoRepair == [pc |-> "idle", completed |-> {}, reset |-> {}]

\* no review session is open
NoReview == [original_file |-> <<>>, corrected_file |-> <<>>, loaded |-> FALSE,
             entries |-> <<>>, modified |-> FALSE, before |-> <<>>, saved |-> FALSE]

NewHist(prev, prevAll) ==
    [called |-> {}, opened |-> {}, atStart |-> {}, ioFail |-> FALSE,
     prevOutput |-> prev, prevAll |-> prevAll, firstTemps |-> {},
     interrupted |-> {}, contexts |-> {}]

\* the state before the first run on an empty output directory
BeforeFirstRun ==
    /\ batch_size \in 1..MaxBatchSize
    /\ max_workers \in 1..MaxWorkers
    /\ run = 0
    /\ resume = FALSE
    /\ phase = "init"
    /\ entries = <<>>
    /\ completed = {}
    /\ progress_file = {}
    /\ batch_files = [k \in 1..MaxLen |-> NoFile]
    /\ output_file = NoFile
    /\ queue = <<>>
    /\ wk = [w \in 1..MaxWorkers |-> IdleWorker]
    /\ last_verify_summary = NoSummary
    /\ corrector = [phase |-> "init", entries |-> <<>>, queue |-> <<>>,
                    wk |-> [w \in 1..MaxWorkers |-> IdleCorrector],
                    batch_results |-> [b \in 1..MaxLen |-> <<>>],
                    done |-> {}, failed |-> {}, output |-> NoFile,
                    stats |-> NoStats]
    /\ hist = NewHist(NoFile, FALSE)
    /\ client = IdleClient
    /\ review = NoReview
    /\ repair = NoRepair
    /\ job = NoJob
    /\ bilingual = NoConversion
    /\ temperature = CallerTemperature

Start(texts, maxlen) ==
    /\ \E n \in 1..maxlen : input_file = InputFile(n, texts)
    /\ BeforeFirstRun

\* one run against each kind of service
Init == Start(InputTexts, MaxLen) /\ service \in {"any", "silent", "clean"} /\ max_runs = 1

\* runs that follow each other on the same output path
InitResume == Start(PlainTexts, MaxResumeLen) /\ service = "plain" /\ max_runs = MaxRuns

\* merge_batch_files in polish_srt_file: the output file is written, or
\* opening it raises and polish_srt_file returns False
Finish(files, es, done) ==
    /\ \E ok \in BOOLEAN :
          IF ok
          THEN /\ output_file' = File(MergeBatchFiles(files, TotalBatches(es, batch_size)),
                                      TRUE, run')
               /\ phase' = "merged"
          ELSE /\ output_file' = output_file
               /\ phase' = "failed"
    /\ UNCHANGED last_verify_summary
    /\ queue' = <<>>
    /\ wk' = [w \in 1..MaxWorkers |-> IdleWorker]

\* lines 1134-1159: the remaining batches are handed to the pool, or to the
\* sequential loop
Submit(remaining) ==
    /\ queue' = remaining
    /\ phase' = "workers"
    /\ wk' = [w \in 1..MaxWorkers |-> IdleWorker]
    /\ UNCHANGED <<output_file, last_verify_summary>>

\* the resume branch a job takes when it ignores the batches found completed
ResumeStartSubmitAll(es, total, h) ==
    LET done == RecoverFromBatchFiles(progress_file, batch_files, total)
    IN  /\ completed' = done
        /\ hist' = [h EXCEPT !.atStart = done]
        /\ UNCHANGED <<progress_file, batch_files>>
        /\ Submit(GetRemainingBatches(total, {}))

\* "if resume:" recover the completed batches; merge and return at once when
\* every batch is completed, else submit the remaining ones
ResumeStart(es, total, h) ==
    LET done == RecoverFromBatchFiles(progress_file, batch_files, total)
    IN  /\ completed' = done
        /\ hist' = [h EXCEPT !.atStart = done]
        /\ UNCHANGED <<progress_file, batch_files>>
        /\ IF done = 1..total
           THEN Finish(batch_files, es, done)
           ELSE Submit(GetRemainingBatches(total, done))

\* the else branch when it leaves the old batch files where they are
FreshStartKeepingFiles(es, total, h) ==
    /\ completed' = {}
    /\ progress_file' = {}
    /\ UNCHANGED batch_files
    /\ hist' = h
    /\ Submit(GetRemainingBatches(total, {}))

\* "else:" a new ProgressManager, every old batch file removed, then every
\* batch submitted
FreshStart(es, total, h) ==
    /\ completed' = {}
    /\ progress_file' = {}
    /\ batch_files' = [k \in 1..MaxLen |-> NoFile]
    /\ hist' = h
    /\ Submit(GetRemainingBatches(total, {}))

\* polish_srt_file when it treats every run as a fresh one
StartRunIgnoringResume(rs) ==
    /\ phase \in {"init", "returned", "failed", "killed"}
    /\ run < max_runs
    /\ run' = run + 1
    /\ resume' = rs
    /\ LET es == ParseSrtFile(input_file)
           prevAll == phase = "returned" /\ completed = 1..TotalBatches(entries, batch_size)
       IN  /\ entries' = es
           /\ FreshStart(es, TotalBatches(es, batch_size),
                         NewHist(IF prevAll THEN output_file ELSE NoFile, prevAll))
    /\ temperature' = CallerTemperature
    /\ UNCHANGED config

\* polish_srt_file up to the submission of the remaining batches
StartRun(rs) ==
    /\ phase \in {"init", "returned", "failed", "killed"}
    /\ run < max_runs
    /\ run' = run + 1
    /\ resume' = rs
    /\ LET es == ParseSrtFile(input_file)
           total == TotalBatches(es, batch_size)
           prevAll == phase = "returned" /\ completed = 1..TotalBatches(entries, batch_size)
           h == [NewHist(IF prevAll THEN output_file ELSE NoFile, prevAll)
                   EXCEPT !.interrupted = IF phase = "killed" THEN hist.interrupted ELSE {}]
       IN  /\ entries' = es
           /\ IF rs THEN ResumeStart(es, total, h) ELSE FreshStart(es, total, h)
    /\ temperature' = CallerTemperature
    /\ UNCHANGED config

\* a pool whose threads start a submitted batch without taking it off
\* the list of the batches still to start
TakeBatchLeavingIt(w) ==
    /\ phase = "workers"
    /\ w <= max_workers
    /\ wk[w].pc = "idle"
    /\ queue # <<>>
    /\ LET b == Head(queue)
       IN  wk' = [wk EXCEPT ![w] =
                    [pc |-> "call", batch |-> b,
                     work |-> <<[s |-> BatchStart(b, batch_size),
                                 e |-> BatchEnd(entries, b, batch_size)]>>,
                     retry |-> 0, result |-> <<>>, wpos |-> 0, orig_temp |-> 0]]
    /\ UNCHANGED <<config, temperature, run, resume, phase, entries, completed, progress_file,
                   batch_files, output_file, queue, last_verify_summary, hist>>

\* a thread of the pool (or the sequential loop) starts process_batch
TakeBatch(w) ==
    /\ phase = "workers"
    /\ w <= max_workers
    /\ wk[w].pc = "idle"
    /\ queue # <<>>
    /\ LET b == Head(queue)
       IN  wk' = [wk EXCEPT ![w] =
                    [pc |-> "call", batch |-> b,
                     work |-> <<[s |-> BatchStart(b, batch_size),
                                 e |-> BatchEnd(entries, b, batch_size)]>>,
                     retry |-> 0, result |-> <<>>, wpos |-> 0, orig_temp |-> 0]]
    /\ queue' = Tail(queue)
    /\ UNCHANGED <<config, temperature, run, resume, phase, entries, completed, progress_file,
                   batch_files, output_file, last_verify_summary, hist>>

\* a remote call has been made for the batch of w
Called(w) ==
    hist' = [hist EXCEPT !.called = @ \cup {wk[w].batch}]

\* a first request of polish_subtitle_batch is sent, with the temperature
\* the client has at that moment
CalledFirst(w) ==
    hist' = [hist EXCEPT !.called = @ \cup {wk[w].batch},
                         !.firstTemps = @ \cup {temperature}]

\* the single-record request is sent: its context string is kept as well
CalledSingle(w) ==
    hist' = [hist EXCEPT !.called = @ \cup {wk[w].batch},
                         !.firstTemps = @ \cup {temperature},
                         !.contexts = @ \cup {SingleContext(entries, Head(wk[w].work).s)}]

\* a call of polish_subtitle_batch returns es; the caller goes on with the
\* second half of a split, or process_batch goes on to write the artifact
Return(w, es) ==
    wk' = [wk EXCEPT ![w].result = @ \o es,
                     ![w].work = Tail(@),
                     ![w].retry = 0,
                     ![w].orig_temp = 0,
                     ![w].pc = IF Len(wk[w].work) = 1 THEN "write" ELSE "call"]

\* "except Exception" of the batch path: split at the mid point
Split(w) ==
    wk' = [wk EXCEPT ![w].work = SplitFrames(Head(@)) \o Tail(@),
                     ![w].retry = 0,
                     ![w].orig_temp = 0,
                     ![w].pc = "call"]

\* a retry of the whole batch for as long as a chunk is bad
EvaluateWithoutCeiling(w, contents) ==
    IF \E i \in 1..Len(contents) : Bad(contents[i])
    THEN wk' = [wk EXCEPT ![w].retry = IF @ < MaxBatchRetries THEN @ + 1 ELSE @,
                          ![w].orig_temp = 0,
                          ![w].pc = "call"]
    ELSE Return(w, PolishedEntries(entries, Head(wk[w].work).s, contents))

\* lines 829-882: retry the whole batch while a chunk is bad and the retry
\* ceiling is not reached, else build the entries
Evaluate(w, contents) ==
    IF (\E i \in 1..Len(contents) : Bad(contents[i])) /\ wk[w].retry < MaxBatchRetries
    THEN wk' = [wk EXCEPT ![w].retry = @ + 1, ![w].orig_temp = 0, ![w].pc = "call"]
    ELSE Return(w, PolishedEntries(entries, Head(wk[w].work).s, contents))

\* polish_subtitle_batch up to the answer of its first remote call
Call(w) ==
    /\ phase = "workers"
    /\ wk[w].pc = "call"
    /\ LET f == Head(wk[w].work)
           n == f.e - f.s
       IN  IF n = 1
           THEN \E r \in SingleResponses(service) :
                   /\ CalledSingle(w)
                   /\ Return(w, SingleResult(entries, f.s, r))
           ELSE \E r \in BatchResponses(n, service) :
                   /\ CalledFirst(w)
                   /\ IF r.t = "exc" THEN Split(w)
                      ELSE IF ParseJsonArray(r, n).ok
                      THEN Evaluate(w, ParseJsonArray(r, n).arr)
                      ELSE wk' = [wk EXCEPT ![w].pc = "strict"]
    /\ UNCHANGED <<config, temperature, run, resume, phase, entries, completed, progress_file,
                   batch_files, output_file, queue, last_verify_summary>>

\* lines 786-791: the temperature of the shared client is read and lowered
\* (max(0.1, orig_temp - 0.1)) and the strict request is sent
StrictLower(w) ==
    /\ phase = "workers"
    /\ wk[w].pc = "strict"
    /\ wk' = [wk EXCEPT ![w].pc = "strictcall", ![w].orig_temp = temperature]
    /\ temperature' = IF temperature - 1 > 1 THEN temperature - 1 ELSE 1
    /\ UNCHANGED <<config, run, resume, phase, entries, completed, progress_file,
                   batch_files, output_file, queue, last_verify_summary, hist>>

\* the answer of the strict request, lines 792-812, and what follows it: the
\* temperature is put back to orig_temp unless the call raised
StrictCall(w) ==
    /\ phase = "workers"
    /\ wk[w].pc = "strictcall"
    /\ LET f == Head(wk[w].work)
           n == f.e - f.s
       IN  \E r \in BatchResponses(n, service) :
              /\ Called(w)
              /\ IF r.t = "exc"
                 THEN Split(w) /\ UNCHANGED temperature
                 ELSE /\ temperature' = wk[w].orig_temp
                      /\ Evaluate(w, StrictContents(r, n))
    /\ UNCHANGED <<config, run, resume, phase, entries, completed, progress_file,
                   batch_files, output_file, queue, last_verify_summary>>

\* write_srt_entries of process_batch: open(batch_output_file, 'w')
WriteOpen(w) ==
    /\ phase = "workers"
    /\ wk[w].pc = "write"
    /\ wk[w].wpos = 0
    /\ batch_files' = [batch_files EXCEPT ![wk[w].batch] = File(<<>>, FALSE, run)]
    /\ wk' = [wk EXCEPT ![w].wpos = 1]
    /\ hist' = [hist EXCEPT !.opened = @ \cup {wk[w].batch}]
    /\ UNCHANGED <<config, temperature, run, resume, phase, entries, completed, progress_file,
                   output_file, queue, last_verify_summary>>

\* one turn of the writing loop; the file is closed after the last entry
WriteEntry(w) ==
    /\ phase = "workers"
    /\ wk[w].pc = "write"
    /\ wk[w].wpos >= 1
    /\ LET n == wk[w].wpos
           last == n = Len(wk[w].result)
       IN  /\ batch_files' = [batch_files EXCEPT ![wk[w].batch] =
                                 File(FilePrefix(wk[w].result, n), last, run)]
           /\ wk' = [wk EXCEPT ![w].wpos = IF last THEN 0 ELSE n + 1,
                               ![w].pc = IF last THEN "mark" ELSE "write"]
    /\ UNCHANGED <<config, temperature, run, resume, phase, entries, completed, progress_file,
                   output_file, queue, last_verify_summary, hist>>

\* opening or writing raises: process_batch logs and returns False
WriteFail(w) ==
    /\ phase = "workers"
    /\ wk[w].pc = "write"
    /\ wk' = [wk EXCEPT ![w] = IdleWorker]
    /\ hist' = [hist EXCEPT !.ioFail = TRUE]
    /\ UNCHANGED <<config, temperature, run, resume, phase, entries, completed, progress_file,
                   batch_files, output_file, queue, last_verify_summary>>

\* progress_manager.mark_batch_completed(batch_number)
MarkBatchCompleted(w) ==
    /\ phase = "workers"
    /\ wk[w].pc = "mark"
    /\ completed' = completed \cup {wk[w].batch}
    /\ progress_file' = completed'
    /\ wk' = [wk EXCEPT ![w] = IdleWorker]
    /\ UNCHANGED <<config, temperature, run, resume, phase, entries, batch_files, output_file,
                   queue, last_verify_summary, hist>>

\* marking raises: process_batch logs and returns False
MarkFail(w) ==
    /\ phase = "workers"
    /\ wk[w].pc = "mark"
    /\ wk' = [wk EXCEPT ![w] = IdleWorker]
    /\ hist' = [hist EXCEPT !.ioFail = TRUE]
    /\ UNCHANGED <<config, temperature, run, resume, phase, entries, completed, progress_file,
                   batch_files, output_file, queue, last_verify_summary>>

\* a merge that starts when every batch has been handed out, without
\* waiting for the workers
MergeWithoutWaiting ==
    /\ phase = "workers"
    /\ queue = <<>>
    /\ UNCHANGED <<config, temperature, run, resume, entries, completed, progress_file,
                   batch_files, hist>>
    /\ Finish(batch_files, entries, completed)

\* every submitted batch has returned: merge
Merge ==
    /\ phase = "workers"
    /\ queue = <<>>
    /\ \A w \in 1..MaxWorkers : wk[w].pc = "idle"
    /\ UNCHANGED <<config, temperature, run, resume, entries, completed, progress_file,
                   batch_files, hist>>
    /\ Finish(batch_files, entries, completed)

\* a verification that turns a result that is not perfect into a failure
\* of the job
AutoVerifyBlocking ==
    /\ phase = "merged"
    /\ \E err \in BOOLEAN :
          /\ last_verify_summary' =
                IF err THEN NoSummary ELSE AutoVerifyResult(input_file, output_file.content)
          /\ phase' = IF last_verify_summary'.perfect THEN "returned" ELSE "failed"
    /\ UNCHANGED <<config, temperature, run, resume, entries, completed, progress_file,
                   batch_files, output_file, queue, wk, hist>>

\* "if auto_verify:" the verification, which computes the summary or fails
\* with an error it catches itself; then "return True"
AutoVerify ==
    /\ phase = "merged"
    /\ \E err \in BOOLEAN :
          last_verify_summary' =
              IF err THEN NoSummary ELSE AutoVerifyResult(input_file, output_file.content)
    /\ phase' = "returned"
    /\ UNCHANGED <<config, temperature, run, resume, entries, completed, progress_file,
                   batch_files, output_file, queue, wk, hist>>

\* stop_polisher: proc.terminate() ends the worker process at any step;
\* the batches its workers had taken and not yet marked are remembered
Terminate ==
    /\ phase = "workers"
    /\ phase' = "killed"
    /\ queue' = <<>>
    /\ wk' = [w \in 1..MaxWorkers |-> IdleWorker]
    /\ hist' = [hist EXCEPT !.interrupted =
                    {wk[w].batch : w \in {v \in 1..MaxWorkers : wk[v].pc # "idle"}}]
    /\ UNCHANGED <<config, temperature, run, resume, entries, completed, progress_file,
                   batch_files, output_file, last_verify_summary>>

\* number_to_index of auto_fix_and_repolish: the last index (from 0) of a
\* number among the source entries
IndexOf(es, n) ==
    (CHOOSE i \in 1..Len(es) : es[i].number = n /\ \A j \in (i + 1)..Len(es) : es[j].number # n) - 1

\* batches_to_reset: the batch of every missing number, at most total
BatchesToReset(src, missing, bs, total) ==
    {LET b == (IndexOf(src, n) \div bs) + 1
     IN  IF total # 0 /\ total < b THEN total ELSE b : n \in missing}

\* auto_fix_and_repolish of the GUI, lines 5363-5454: the numbers missing
\* from the output are found, the progress file is read and the batches
\* of the missing numbers are computed.  The button is there whatever the
\* job does, so a job may be running.  The progress file is there when
\* it holds a completed batch.
AutoFixReadProgress ==
    /\ phase \in {"workers", "returned", "failed", "killed"}
    /\ repair.pc = "idle"
    /\ progress_file # {}
    /\ LET src_entries == ParseSrtFile(input_file)
           tr_entries == IF output_file.exists THEN ParseSrtFile(output_file.content)
                         ELSE <<>>
           missing == Numbers(src_entries) \ Numbers(tr_entries)
       IN  /\ missing # {}
           /\ repair' = [pc |-> "read", completed |-> progress_file,
                         reset |-> BatchesToReset(src_entries, missing, batch_size,
                                                  TotalBatches(src_entries, batch_size))]
    /\ UNCHANGED <<input_file, batch_size, max_workers, service, max_runs, corrector, client,
                   review, job, bilingual, temperature, run, resume, phase, entries, completed,
                   progress_file, batch_files, output_file, queue, wk,
                   last_verify_summary, hist>>

\* auto_fix_and_repolish, lines 5456-5486, up to the start of the thread
\* that runs polish_srt_file(resume=True): the progress file is written
\* again with the completed marks that were read, without those of the
\* batches to reset, and the merged output is removed.  No batch file is
\* removed: the pattern of line 5467, r"_polish_batch(\d+)\\.srt$", asks
\* for a backslash before "srt" and matches no batch file name.
AutoFixAndRepolish ==
    /\ repair.pc = "read"
    /\ progress_file' = repair.completed \ repair.reset
    /\ output_file' = NoFile
    /\ repair' = NoRepair
    /\ UNCHANGED <<input_file, batch_size, max_workers, service, max_runs, corrector, client,
                   review, job, bilingual, temperature, run, resume, phase, entries, completed,
                   batch_files, queue, wk, last_verify_summary, hist>>

Next ==
    \/ \E rs \in BOOLEAN : StartRun(rs)
    \/ \E w \in 1..MaxWorkers : TakeBatch(w)
    \/ \E w \in 1..MaxWorkers : Call(w)
    \/ \E w \in 1..MaxWorkers : StrictLower(w)
    \/ \E w \in 1..MaxWorkers : StrictCall(w)
    \/ \E w \in 1..MaxWorkers : WriteOpen(w)
    \/ \E w \in 1..MaxWorkers : WriteEntry(w)
    \/ \E w \in 1..MaxWorkers : WriteFail(w)
    \/ \E w \in 1..MaxWorkers : MarkBatchCompleted(w)
    \/ \E w \in 1..MaxWorkers : MarkFail(w)
    \/ Merge
    \/ AutoVerify
    \/ Terminate

Spec == Init /\ [][Next]_vars

\* one call of polish_subtitle_batch by process_batch: worker 1 has taken a
\* batch of a fresh run and the calls of the service return or raise
InitBatch ==
    /\ \E n \in 1..MaxLen : input_file = InputFile(n, InputTexts)
    /\ batch_size \in 1..MaxBatchSize
    /\ max_workers = 1
    /\ service \in {"any", "silent", "clean"}
    /\ max_runs = 1
    /\ run = 1
    /\ resume = FALSE
    /\ phase = "workers"
    /\ entries = ParseSrtFile(input_file)
    /\ completed = {}
    /\ progress_file = {}
    /\ batch_files = [k \in 1..MaxLen |-> NoFile]
    /\ output_file = NoFile
    /\ queue = <<>>
    /\ \E b \in 1..TotalBatches(entries, batch_size) :
          wk = [w \in 1..MaxWorkers |->
                   IF w = 1
                   THEN [pc |-> "call", batch |-> b,
                         work |-> <<[s |-> BatchStart(b, batch_size),
                                     e |-> BatchEnd(entries, b, batch_size)]>>,
                         retry |-> 0, result |-> <<>>, wpos |-> 0, orig_temp |-> 0]
                   ELSE IdleWorker]
    /\ last_verify_summary = NoSummary
    /\ corrector = [phase |-> "off", entries |-> <<>>, queue |-> <<>>,
                    wk |-> [w \in 1..MaxWorkers |-> IdleCorrector],
                    batch_results |-> [b \in 1..MaxLen |-> <<>>],
                    done |-> {}, failed |-> {}, output |-> NoFile,
                    stats |-> NoStats]
    /\ hist = NewHist(NoFile, FALSE)
    /\ client = IdleClient
    /\ review = NoReview
    /\ repair = NoRepair
    /\ job = NoJob
    /\ bilingual = NoConversion
    /\ temperature = CallerTemperature

NextBatch ==
    \/ Call(1)
    \/ StrictLower(1)
    \/ StrictCall(1)

SpecBatch == InitBatch /\ [][NextBatch]_vars

\* one run of the job on an input file with an unparseable record
InitDropped ==
    /\ input_file \in DamagedFiles
    /\ BeforeFirstRun
    /\ service \in {"any", "silent", "clean"}
    /\ max_runs = 1

SpecDropped == InitDropped /\ [][Next]_vars

SpecResume == InitResume /\ [][Next]_vars

\* one run against a service that gives the same answer to the same request
InitFixed == Start(InputTexts, MaxLen) /\ service = "fixed" /\ max_runs = 1

SpecFixed == InitFixed /\ [][Next]_vars

\* runs on the same output path and the repair of the GUI.  The repair runs
\* on the thread of the GUI, as the callbacks that start and stop a job do:
\* while it runs no run starts and none is stopped, but the workers of a
\* run that was started go on.
NextRepair ==
    \/ repair.pc = "idle" /\ Next
    \/ repair.pc = "read" /\ Next /\ run' = run /\ phase' # "killed"
    \/ AutoFixReadProgress
    \/ AutoFixAndRepolish

SpecRepair == InitResume /\ [][NextRepair]_vars

(***************************************************************************)
(* The correction job in true batch mode.                                  *)
(***************************************************************************)
polisher == <<run, resume, phase, entries, completed, progress_file, batch_files,
              output_file, queue, wk, last_verify_summary, hist, temperature>>

\* batches[b] of correct_srt_file
CorrectorBatch(b) ==
    SubSeq(corrector.entries, BatchStart(b, batch_size) + 1,
           BatchEnd(corrector.entries, b, batch_size))

\* correct_srt_file up to the submission of every batch
CorrectorStart ==
    /\ corrector.phase = "init"
    /\ max_runs = 0
    /\ LET es == ParseSrtFile(input_file)
       IN  corrector' = [corrector EXCEPT
                !.phase = "workers",
                !.entries = es,
                !.stats.total_entries = Len(es),
                !.queue = GetRemainingBatches(TotalBatches(es, batch_size), {})]
    /\ UNCHANGED <<input_file, batch_size, max_workers, service, max_runs, polisher, client, review, repair, job, bilingual>>

\* the counter lines 834-849 add one to for each result: error_entries for
\* None, corrected_entries for a text that differs from the formatted text,
\* unchanged_entries for one that does not
CountedAs(need, results) ==
    [i \in 1..Len(need) |->
        IF results[i] = NoneTxt THEN "error_entries"
        ELSE IF Strip(results[i]) # Strip(need[i].content) THEN "corrected_entries"
        ELSE "unchanged_entries"]

\* line 792: unchanged_entries once for each entry that needs no correction
CountedUnchanged(batch) ==
    [i \in 1..Len(NeedFrom(FormattedBatch(batch), 1, FALSE)) |-> "unchanged_entries"]

\* a thread that still has the counters of pending to add to
Counting(b, pending, then) ==
    [pc |-> "load", batch |-> b, attempt |-> 0, pending |-> pending, reg |-> 0, then |-> then]

\* _process_single_true_batch has its results and goes on to count them;
\* failed holds the batches for which the client gave no result in any attempt
BatchDone(w, b, results) ==
    corrector' = [corrector EXCEPT
        !.wk[w] = Counting(b, CountedAs(NeedFrom(FormattedBatch(CorrectorBatch(b)), 1, TRUE), results),
                           "return"),
        !.batch_results[b] = CorrectedBatchEntries(CorrectorBatch(b), results),
        !.failed = IF results = AllNone(Len(results)) THEN @ \cup {b} ELSE @]

\* a thread of the pool starts _process_single_true_batch: it counts the
\* entries that need no correction and goes on to the request, or is done
\* at once when the batch has nothing to correct and nothing to count
CorrectorTake(w) ==
    /\ corrector.phase = "workers"
    /\ w <= max_workers
    /\ corrector.wk[w].pc = "idle"
    /\ corrector.queue # <<>>
    /\ LET b == Head(corrector.queue)
           c == [corrector EXCEPT !.queue = Tail(@)]
           nothing == NeedFrom(FormattedBatch(CorrectorBatch(b)), 1, TRUE) = <<>>
           pre == CountedUnchanged(CorrectorBatch(b))
           d == IF nothing
                THEN [c EXCEPT !.batch_results[b] = CorrectedBatchEntries(CorrectorBatch(b), <<>>)]
                ELSE c
       IN  IF pre # <<>>
           THEN corrector' = [d EXCEPT
                    !.wk[w] = Counting(b, pre, IF nothing THEN "return" ELSE "call")]
           ELSE IF nothing
           THEN corrector' = [d EXCEPT !.done = @ \cup {b}]
           ELSE corrector' = [d EXCEPT
                    !.wk[w] = [IdleCorrector EXCEPT !.pc = "call", !.batch = b]]
    /\ UNCHANGED <<input_file, batch_size, max_workers, service, max_runs, polisher, client, review, repair, job, bilingual>>

\* self.stats[k] += 1 in a thread of the pool, first half: the value of the
\* counter is read (no lock is held)
StatsLoad(w) ==
    /\ corrector.phase = "workers"
    /\ corrector.wk[w].pc = "load"
    /\ corrector' = [corrector EXCEPT
          !.wk[w].pc = "store",
          !.wk[w].reg = corrector.stats[Head(corrector.wk[w].pending)]]
    /\ UNCHANGED <<input_file, batch_size, max_workers, service, max_runs, polisher, client, review, repair, job, bilingual>>

\* self.stats[k] += 1, second half: the value read plus one is stored; after
\* the last counter the thread goes on to the request or returns
StatsStore(w) ==
    /\ corrector.phase = "workers"
    /\ corrector.wk[w].pc = "store"
    /\ LET me == corrector.wk[w]
           c == [corrector EXCEPT !.stats[Head(me.pending)] = me.reg + 1]
       IN  IF Len(me.pending) > 1
           THEN corrector' = [c EXCEPT !.wk[w] = Counting(me.batch, Tail(me.pending), me.then)]
           ELSE IF me.then = "call"
           THEN corrector' = [c EXCEPT
                    !.wk[w] = [IdleCorrector EXCEPT !.pc = "call", !.batch = me.batch]]
           ELSE corrector' = [c EXCEPT
                    !.wk[w] = IdleCorrector,
                    !.done = @ \cup {me.batch}]
    /\ UNCHANGED <<input_file, batch_size, max_workers, service, max_runs, polisher, client, review, repair, job, bilingual>>

\* one turn of the retry loop of lines 803-827 and, when the loop ends,
\* the building of the batch's entries
CorrectBatchTexts(w) ==
    /\ corrector.phase = "workers"
    /\ corrector.wk[w].pc = "call"
    /\ LET b == corrector.wk[w].batch
           need == NeedFrom(FormattedBatch(CorrectorBatch(b)), 1, TRUE)
           last == corrector.wk[w].attempt = MAX_BATCH_RETRIES - 1
       IN  \E o \in CorrectorOutcomes(Len(need)) :
              IF o.t = "answer" THEN BatchDone(w, b, ParseBatchResult(o.a, need))
              ELSE IF last THEN BatchDone(w, b, AllNone(Len(need)))
              ELSE corrector' = [corrector EXCEPT !.wk[w].attempt = @ + 1]
    /\ UNCHANGED <<input_file, batch_size, max_workers, service, max_runs, polisher, client, review, repair, job, bilingual>>

\* every batch is done: the results in batch order, sorted by number,
\* written to the output file
RECURSIVE BatchResultsFrom(_, _)
BatchResultsFrom(b, total) ==
    IF b > total THEN <<>>
    ELSE corrector.batch_results[b] \o BatchResultsFrom(b + 1, total)
CorrectorFinish ==
    /\ corrector.phase = "workers"
    /\ corrector.done = 1..TotalBatches(corrector.entries, batch_size)
    /\ corrector' = [corrector EXCEPT
          !.phase = "returned",
          !.output = File(WriteSrtFile(SortByNumber(
                BatchResultsFrom(1, TotalBatches(corrector.entries, batch_size)))), TRUE, 1)]
    /\ UNCHANGED <<input_file, batch_size, max_workers, service, max_runs, polisher, client, review, repair, job, bilingual>>

NextCorrector ==
    \/ CorrectorStart
    \/ \E w \in 1..MaxWorkers : CorrectorTake(w)
    \/ \E w \in 1..MaxWorkers : CorrectBatchTexts(w)
    \/ \E w \in 1..MaxWorkers : StatsLoad(w)
    \/ \E w \in 1..MaxWorkers : StatsStore(w)
    \/ CorrectorFinish

InitCorrector ==
    /\ Start(CorrectorTexts, MaxLen) \/ Start(CorrectorWordTexts, MaxLen)
    /\ service = "any"
    /\ max_runs = 0

SpecCorrector == InitCorrector /\ [][NextCorrector]_vars

(***************************************************************************)
(* auto_verify_result on any pair of files.                                *)
(***************************************************************************)
MaxVerifyLen == 2    \* records in a file handed to the verification

\* records of the files: two numbers, three spans
VerifyRecords ==
    {SRTEntry(n, t[1], t[2], <<Wd(1)>>) : n \in {1, 3}, t \in {<<0, 2>>, <<0, 4>>, <<2, 4>>}}

\* the files of at most MaxVerifyLen records, duplicate numbers among them
VerifyFiles ==
    {WriteSrtFile(es) : es \in UNION {[1..n -> VerifyRecords] : n \in 0..MaxVerifyLen}}

InitVerify ==
    /\ input_file \in VerifyFiles
    /\ output_file \in {File(f, TRUE, 1) : f \in VerifyFiles}
    /\ batch_size = 1
    /\ max_workers = 1
    /\ service = "any"
    /\ max_runs = 0
    /\ run = 1
    /\ resume = FALSE
    /\ phase = "verify"
    /\ entries = <<>>
    /\ completed = {}
    /\ progress_file = {}
    /\ batch_files = [k \in 1..MaxLen |-> NoFile]
    /\ queue = <<>>
    /\ wk = [w \in 1..MaxWorkers |-> IdleWorker]
    /\ last_verify_summary = NoSummary
    /\ corrector = [phase |-> "off", entries |-> <<>>, queue |-> <<>>,
                    wk |-> [w \in 1..MaxWorkers |-> IdleCorrector],
                    batch_results |-> [b \in 1..MaxLen |-> <<>>],
                    done |-> {}, failed |-> {}, output |-> NoFile,
                    stats |-> NoStats]
    /\ hist = NewHist(NoFile, FALSE)
    /\ client = IdleClient
    /\ review = NoReview
    /\ repair = NoRepair
    /\ job = NoJob
    /\ bilingual = NoConversion
    /\ temperature = CallerTemperature

\* auto_verify_result(original_file, polished_file)
Verify ==
    /\ phase = "verify"
    /\ last_verify_summary' = AutoVerifyResult(input_file, output_file.content)
    /\ phase' = "verified"
    /\ UNCHANGED <<config, temperature, run, resume, entries, completed, progress_file, batch_files,
                   output_file, queue, wk, hist>>

SpecVerify == InitVerify /\ [][Verify]_vars

(***************************************************************************)
(* The writers on any sequence of well-formed records.                     *)
(***************************************************************************)
MaxRenderLen == 2    \* records handed to a writer

\* texts of well-formed records: a word, digits only, a label before a
\* word, two lines
RenderTexts == {<<Wd(1)>>, <<Dg(7)>>, <<Lab(3), Sp, Wd(1)>>, <<Wd(1), NL, Wd(2)>>}

RenderRecords == {SRTEntry(n, n - 1, n + 1, t) : n \in {1, 3}, t \in RenderTexts}

InitRender ==
    /\ entries \in UNION {[1..n -> RenderRecords] : n \in 0..MaxRenderLen}
    /\ input_file = <<>>
    /\ output_file = NoFile
    /\ batch_size = 1
    /\ max_workers = 1
    /\ service = "any"
    /\ max_runs = 0
    /\ run = 1
    /\ resume = FALSE
    /\ phase = "render"
    /\ completed = {}
    /\ progress_file = {}
    /\ batch_files = [k \in 1..MaxLen |-> NoFile]
    /\ queue = <<>>
    /\ wk = [w \in 1..MaxWorkers |-> IdleWorker]
    /\ last_verify_summary = NoSummary
    /\ corrector = [phase |-> "off", entries |-> <<>>, queue |-> <<>>,
                    wk |-> [w \in 1..MaxWorkers |-> IdleCorrector],
                    batch_results |-> [b \in 1..MaxLen |-> <<>>],
                    done |-> {}, failed |-> {}, output |-> NoFile,
                    stats |-> NoStats]
    /\ hist = NewHist(NoFile, FALSE)
    /\ client = IdleClient
    /\ review = NoReview
    /\ repair = NoRepair
    /\ job = NoJob
    /\ bilingual = NoConversion
    /\ temperature = CallerTemperature

\* write_srt_entries(entries, output_file) of the polisher and
\* _write_srt_file(entries, output_file) of the corrector
Render ==
    /\ phase = "render"
    /\ output_file' = File(WriteSrtEntries(entries), TRUE, run)
    /\ corrector' = [corrector EXCEPT !.output = File(WriteSrtFile(entries), TRUE, run)]
    /\ phase' = "rendered"
    /\ UNCHANGED <<input_file, batch_size, max_workers, service, max_runs, run, resume,
                   entries, completed, progress_file, batch_files, queue, wk,
                   last_verify_summary, hist, client, review, repair, job, bilingual, temperature>>

SpecRender == InitRender /\ [][Render]_vars

(***************************************************************************)
(* One call of the corrector's API client (src/srt_corrector.py):          *)
(* correct_text_with_context for one text, or correct_batch_texts for n    *)
(* records, with the default retry_count.                                  *)
(***************************************************************************)
MAX_API_RETRIES == 5
MAX_BACKOFF_SECONDS == 10
MaxClientBatch == 2

\* the state of every variable the client call, the review and the worker
\* process do not use
Unused(ph) ==
    /\ input_file = <<>>
    /\ output_file = NoFile
    /\ batch_size = 1
    /\ max_workers = 1
    /\ service = "any"
    /\ max_runs = 0
    /\ run = 1
    /\ resume = FALSE
    /\ phase = ph
    /\ entries = <<>>
    /\ completed = {}
    /\ progress_file = {}
    /\ batch_files = [k \in 1..MaxLen |-> NoFile]
    /\ queue = <<>>
    /\ wk = [w \in 1..MaxWorkers |-> IdleWorker]
    /\ last_verify_summary = NoSummary
    /\ corrector = [phase |-> "off", entries |-> <<>>, queue |-> <<>>,
                    wk |-> [w \in 1..MaxWorkers |-> IdleCorrector],
                    batch_results |-> [b \in 1..MaxLen |-> <<>>],
                    done |-> {}, failed |-> {}, output |-> NoFile,
                    stats |-> NoStats]
    /\ hist = NewHist(NoFile, FALSE)
    /\ temperature = CallerTemperature
    /\ repair = NoRepair

\* requests.post or raise_for_status raises a requests.exceptions.RequestException
TransportFailures == {"timeout", "connection", "http_status"}

\* result["choices"][0]["message"]["content"] raises KeyError or IndexError
EnvelopeFailures == {"no_choices", "empty_choices"}

\* the same expression raises another exception: TypeError where the body is
\* no JSON object, AttributeError on .strip() where the content is null
UnexpectedBodies == {"not_an_object", "null_content"}

\* the no-result sentinel: None, or a list of n None
NoResult(c) == Resp("none", IF c.single THEN NoneTxt ELSE AllNone(c.n))

\* min(2 ** attempt, MAX_BACKOFF_SECONDS)
Delay(attempt) ==
    IF 2 ^ attempt < MAX_BACKOFF_SECONDS THEN 2 ^ attempt ELSE MAX_BACKOFF_SECONDS

InitClient ==
    /\ Unused("client")
    /\ review = NoReview
    /\ job = NoJob
    /\ bilingual = NoConversion
    /\ \E single \in BOOLEAN, n \in 1..MaxClientBatch :
          /\ single => n = 1
          /\ client = [IdleClient EXCEPT !.pc = "request", !.single = single, !.n = n]

\* the request of one turn of the loop is sent
Sent(c) == [c EXCEPT !.requests = @ + 1]

\* the turn ends in the handler of RequestException: the delay is computed
\* and logged, slept only while a turn is left, else the sentinel is returned
RequestFailed(c, f) ==
    LET d == [c EXCEPT !.failures = Append(@, f)]
    IN  IF c.attempt < MAX_API_RETRIES - 1
        THEN [d EXCEPT !.waits = Append(@, Delay(c.attempt)), !.attempt = @ + 1]
        ELSE [d EXCEPT !.pc = "done", !.result = NoResult(c)]

\* an exception no handler of the loop catches leaves the call
Raised(c, f) ==
    [c EXCEPT !.failures = Append(@, f), !.pc = "done", !.result = Resp("exc", <<>>)]

\* the answer has a content: it is stripped, parsed and returned
ClientSucceeds ==
    /\ client.pc = "request"
    /\ client' = [Sent(client) EXCEPT !.pc = "done",
                     !.result = Resp("parts", IF client.single THEN CorrectedOk
                                              ELSE [i \in 1..client.n |-> CorrectedOk])]
    /\ UNCHANGED <<input_file, batch_size, max_workers, service, max_runs, polisher,
                   corrector, review, repair, job, bilingual>>

ClientRequestFails ==
    /\ client.pc = "request"
    /\ \E f \in TransportFailures : client' = RequestFailed(Sent(client), f)
    /\ UNCHANGED <<input_file, batch_size, max_workers, service, max_runs, polisher,
                   corrector, review, repair, job, bilingual>>

\* response.json() raises on a body that is no JSON: a RequestException with
\* requests 2.27 and later, a plain ValueError, which no handler catches,
\* before
ClientInvalidJson ==
    /\ client.pc = "request"
    /\ \/ client' = RequestFailed(Sent(client), "invalid_json")
       \/ client' = Raised(Sent(client), "invalid_json")
    /\ UNCHANGED <<input_file, batch_size, max_workers, service, max_runs, polisher,
                   corrector, review, repair, job, bilingual>>

\* the handler of KeyError and IndexError returns the sentinel at once
ClientEnvelopeError ==
    /\ client.pc = "request"
    /\ \E f \in EnvelopeFailures :
          client' = [Sent(client) EXCEPT !.failures = Append(@, f), !.pc = "done",
                                         !.result = NoResult(client)]
    /\ UNCHANGED <<input_file, batch_size, max_workers, service, max_runs, polisher,
                   corrector, review, repair, job, bilingual>>

ClientUnexpectedBody ==
    /\ client.pc = "request"
    /\ \E f \in UnexpectedBodies : client' = Raised(Sent(client), f)
    /\ UNCHANGED <<input_file, batch_size, max_workers, service, max_runs, polisher,
                   corrector, review, repair, job, bilingual>>

NextClient ==
    \/ ClientSucceeds
    \/ ClientRequestFails
    \/ ClientInvalidJson
    \/ ClientEnvelopeError
    \/ ClientUnexpectedBody

SpecClient == InitClient /\ [][NextClient]_vars

(***************************************************************************)
(* The review of a corrected file against its original in the GUI          *)
(* (src/srt_gui.py).  review.before is the corrected file as the last save *)
(* found it, review.saved that nothing was done since that save.           *)
(***************************************************************************)
MaxReviewLen == 2

\* SubtitleDiffEngine.parse_srt_file: the records by number, the last record
\* of a number taking its place, the content stripped
DiffParse(content) ==
    LET es == ParseSrtFile(content)
    IN  [n \in Numbers(es) |->
            [number |-> n, start_time |-> LastOf(es, n).start_time,
             end_time |-> LastOf(es, n).end_time, content |-> Strip(LastOf(es, n).content)]]

CorrectionReviewEntry(number, start, end, original, corrected) ==
    [number |-> number, start_time |-> start, end_time |-> end,
     original_content |-> original, corrected_content |-> corrected,
     current_status |-> "corrected", edited_content |-> corrected]

\* the loop of find_changed_entries over the numbers of S in ascending order
RECURSIVE ChangedFrom(_, _, _)
ChangedFrom(od, cd, S) ==
    IF S = {} THEN <<>>
    ELSE LET num == CHOOSE n \in S : \A x \in S : n <= x
         IN  (IF num \in DOMAIN od /\ Strip(od[num].content) # Strip(cd[num].content)
              THEN <<CorrectionReviewEntry(num, cd[num].start_time, cd[num].end_time,
                                           od[num].content, cd[num].content)>>
              ELSE <<>>)
             \o ChangedFrom(od, cd, S \ {num})

find_changed_entries(od, cd) == ChangedFrom(od, cd, DOMAIN cd)

\* the content save_review_modifications takes for an entry
ChosenContent(e) ==
    CASE e.current_status = "original" -> e.original_content
      [] e.current_status = "edited" -> e.edited_content
      [] OTHER -> e.corrected_content

\* the loop of save_review_modifications over review_entries[i..]
RECURSIVE ApplyFrom(_, _, _)
ApplyFrom(cd, es, i) ==
    IF i > Len(es) THEN cd
    ELSE ApplyFrom(IF es[i].number \in DOMAIN cd
                   THEN [cd EXCEPT ![es[i].number].content = ChosenContent(es[i])]
                   ELSE cd,
                   es, i + 1)

\* SRTGuiApp.write_srt_file over the numbers of S in ascending order
RECURSIVE GuiWriteFrom(_, _)
GuiWriteFrom(d, S) ==
    IF S = {} THEN <<>>
    ELSE LET number == CHOOSE n \in S : \A x \in S : n <= x
         IN  <<Dg(number), NL, Tc(d[number].start_time, d[number].end_time), NL>>
             \o d[number].content \o <<NL>>
             \o (IF \E x \in DOMAIN d : x > number THEN <<NL>> ELSE <<>>)
             \o GuiWriteFrom(d, S \ {number})

GuiWriteSrtFile(d) == GuiWriteFrom(d, DOMAIN d)

\* records of the files under review: the numbers 1 and 3, a span by number
ReviewRecords(texts) == {SRTEntry(n, n - 1, n + 1, t) : n \in {1, 3}, t \in texts}

\* original files hold the original text, in number order
ReviewOriginals ==
    {WriteSrtFile(es) : es \in {<<SRTEntry(1, 0, 2, <<Wd(1)>>)>>,
                                <<SRTEntry(1, 0, 2, <<Wd(1)>>), SRTEntry(3, 2, 4, <<Wd(1)>>)>>}}

\* corrected files as the corrector's writer leaves them; a number can occur
\* twice in them
ReviewCorrecteds ==
    {WriteSrtFile(es) :
        es \in UNION {[1..n -> ReviewRecords({<<Wd(1)>>, <<Wd(2)>>})] : n \in 1..MaxReviewLen}}

\* what the edit box can hold when it is saved: stripped and not empty, one
\* paragraph or two with a blank line between them
EditedTexts == {<<Wd(5)>>, <<Wd(5), NL, NL, Wd(6)>>}

InitReview ==
    /\ Unused("review")
    /\ client = IdleClient
    /\ job = NoJob
    /\ bilingual = NoConversion
    /\ \E o \in ReviewOriginals, c \in ReviewCorrecteds :
          review = [NoReview EXCEPT !.original_file = o, !.corrected_file = c]

\* load_comparison
LoadComparison ==
    /\ phase = "review"
    /\ review' = [review EXCEPT
          !.entries = find_changed_entries(DiffParse(review.original_file),
                                           DiffParse(review.corrected_file)),
          !.loaded = TRUE, !.modified = FALSE, !.saved = FALSE]
    /\ UNCHANGED <<input_file, batch_size, max_workers, service, max_runs, polisher,
                   corrector, client, repair, job, bilingual>>

\* set_entry_status, and the buttons use_original and use_corrected of the
\* edit dialog
SetEntryStatus ==
    /\ phase = "review"
    /\ \E i \in 1..Len(review.entries), st \in {"original", "corrected"} :
          review' = [review EXCEPT
              !.entries[i].current_status = st,
              !.entries[i].edited_content =
                  IF st = "corrected" THEN review.entries[i].corrected_content
                  ELSE review.entries[i].original_content,
              !.modified = TRUE, !.saved = FALSE]
    /\ UNCHANGED <<input_file, batch_size, max_workers, service, max_runs, polisher,
                   corrector, client, repair, job, bilingual>>

\* a save_edit that takes whatever the edit box holds
SaveEditUnchecked ==
    /\ phase = "review"
    /\ \E i \in 1..Len(review.entries), new_content \in EditedTexts \cup {<<>>} :
          review' = [review EXCEPT
              !.entries[i].current_status = "edited",
              !.entries[i].edited_content = new_content,
              !.modified = TRUE, !.saved = FALSE]
    /\ UNCHANGED <<input_file, batch_size, max_workers, service, max_runs, polisher,
                   corrector, client, repair, job, bilingual>>

\* save_edit of the edit dialog: the stripped text of the edit box is taken
\* when it is not empty ("if new_content:"), else the dialog just closes
SaveEdit ==
    /\ phase = "review"
    /\ \E i \in 1..Len(review.entries), new_content \in EditedTexts \cup {<<>>} :
          IF new_content # <<>>
          THEN review' = [review EXCEPT
                  !.entries[i].current_status = "edited",
                  !.entries[i].edited_content = new_content,
                  !.modified = TRUE, !.saved = FALSE]
          ELSE review' = review
    /\ UNCHANGED <<input_file, batch_size, max_workers, service, max_runs, polisher,
                   corrector, client, repair, job, bilingual>>

\* save_review_modifications, past its two early returns
SaveReviewModifications ==
    /\ phase = "review"
    /\ review.entries # <<>>
    /\ review.loaded
    /\ review.modified
    /\ review' = [review EXCEPT
          !.corrected_file =
              GuiWriteSrtFile(ApplyFrom(DiffParse(review.corrected_file), review.entries, 1)),
          !.before = review.corrected_file,
          !.modified = FALSE, !.saved = TRUE]
    /\ UNCHANGED <<input_file, batch_size, max_workers, service, max_runs, polisher,
                   corrector, client, repair, job, bilingual>>

NextReview ==
    \/ LoadComparison
    \/ SetEntryStatus
    \/ SaveEdit
    \/ SaveReviewModifications

SpecReview == InitReview /\ [][NextReview]_vars

(***************************************************************************)
(* The worker process of a job: run_corrector_job and run_polisher_job of  *)
(* srt_task_worker.py, and the stop buttons of the GUI.  job.queue is the  *)
(* sequence of the messages put on out_queue, in the order of the puts.    *)
(***************************************************************************)
MaxMessages == 6     \* messages a worker process puts before it ends

\* a message of out_queue: its first member and, for a done message, the
\* success flag
Message(type, ok) == [type |-> type, ok |-> ok]

InitWorker ==
    /\ Unused("job")
    /\ client = IdleClient
    /\ review = NoReview
    /\ bilingual = NoConversion
    /\ \E kind \in {"corrector", "polisher"} :
          job = [pc |-> "init", kind |-> kind, queue |-> <<>>]

\* out_queue.put(item)
Put(item) == [job EXCEPT !.queue = Append(@, item)]

\* the function up to the call of the job: the import or a constructor
\* raises, or the first message is put
JobConstruct ==
    /\ job.pc = "init"
    /\ \/ job' = [job EXCEPT !.pc = "except"]
       \/ job' = [Put(Message(job.kind, FALSE)) EXCEPT !.pc = "running"]
    /\ UNCHANGED <<input_file, batch_size, max_workers, service, max_runs, polisher,
                   corrector, client, review, repair, bilingual>>

\* correct_srt_file or polish_srt_file is running: output_callback or the
\* log handler puts a text, progress_callback of the corrector a progress
JobOutput ==
    /\ job.pc = "running"
    /\ Len(job.queue) < MaxMessages
    /\ \/ job' = Put(Message(job.kind, FALSE))
       \/ job.kind = "corrector" /\ job' = Put(Message("corrector_progress", FALSE))
    /\ UNCHANGED <<input_file, batch_size, max_workers, service, max_runs, polisher,
                   corrector, client, review, repair, bilingual>>

\* the job returns ok, its threads joined: the done message is put and the
\* function returns
JobDone ==
    /\ job.pc = "running"
    /\ \E ok \in BOOLEAN :
          job' = [Put(Message(IF job.kind = "corrector" THEN "corrector_done"
                              ELSE "polisher_done", ok))
                  EXCEPT !.pc = "returned"]
    /\ UNCHANGED <<input_file, batch_size, max_workers, service, max_runs, polisher,
                   corrector, client, review, repair, bilingual>>

\* "except Exception": the error message is put and the function returns
JobError ==
    /\ job.pc = "except"
    /\ job' = [Put(Message(IF job.kind = "corrector" THEN "corrector_error"
                           ELSE "polisher_error", FALSE))
               EXCEPT !.pc = "returned"]
    /\ UNCHANGED <<input_file, batch_size, max_workers, service, max_runs, polisher,
                   corrector, client, review, repair, bilingual>>

\* stop_correction, stop_polisher: proc.terminate() on a process that is
\* alive; nothing of the function runs any more
JobTerminate ==
    /\ job.pc \in {"init", "running", "except"}
    /\ job' = [job EXCEPT !.pc = "killed"]
    /\ UNCHANGED <<input_file, batch_size, max_workers, service, max_runs, polisher,
                   corrector, client, review, repair, bilingual>>

NextWorker ==
    \/ JobConstruct
    \/ JobOutput
    \/ JobDone
    \/ JobError
    \/ JobTerminate

SpecWorker == InitWorker /\ [][NextWorker]_vars

(***************************************************************************)
(* convert_to_bilingual of independent_bilingual_translator.py, run in a   *)
(* thread of the GUI, and the stop button of the converter.  The files are *)
(* the numbers of their records; the output file is absent, the file that  *)
(* was there before the call ("old"), or the file the call wrote ("new").  *)
(***************************************************************************)
MaxBilingualLen == 3     \* records in a file handed to the conversion

InitBilingual ==
    /\ Unused("bilingual")
    /\ client = IdleClient
    /\ review = NoReview
    /\ job = NoJob
    /\ \E o \in 0..MaxBilingualLen, t \in 0..MaxBilingualLen, f \in {"absent", "old"} :
          bilingual = [NoConversion EXCEPT !.pc = "parse", !.original = o, !.translated = t,
                                           !.before = f, !.output_file = f]

\* the call returns r
ConversionReturns(b, r) == [b EXCEPT !.pc = "returned", !.result = r]

\* lines 166-186: both files are parsed; False when the counts differ
ConvertParse ==
    /\ bilingual.pc = "parse"
    /\ bilingual' = IF bilingual.original # bilingual.translated
                    THEN ConversionReturns(bilingual, "False")
                    ELSE [bilingual EXCEPT !.pc = "loop"]
    /\ UNCHANGED <<input_file, batch_size, max_workers, service, max_runs, polisher,
                   corrector, client, review, repair, job>>

\* one turn of the loop over as_completed, lines 212-237: False when the
\* stop event is set, else the entry is taken (process_single_entry gives
\* None when the two numbers differ)
ConvertCollect ==
    /\ bilingual.pc = "loop"
    /\ bilingual.completed < bilingual.original
    /\ IF bilingual.stop_event
       THEN bilingual' = ConversionReturns(bilingual, "False")
       ELSE \E result \in BOOLEAN :
               bilingual' = [bilingual EXCEPT
                   !.completed = @ + 1,
                   !.valid = IF result THEN @ + 1 ELSE @]
    /\ UNCHANGED <<input_file, batch_size, max_workers, service, max_runs, polisher,
                   corrector, client, review, repair, job>>

\* lines 239-244: the loop is over; False when no entry is valid
ConvertFilter ==
    /\ bilingual.pc = "loop"
    /\ bilingual.completed = bilingual.original
    /\ bilingual' = IF bilingual.valid = 0
                    THEN ConversionReturns(bilingual, "False")
                    ELSE [bilingual EXCEPT !.pc = "write"]
    /\ UNCHANGED <<input_file, batch_size, max_workers, service, max_runs, polisher,
                   corrector, client, review, repair, job>>

\* lines 246-269: the output file is opened for writing and written, and
\* the call returns True; or open raises and so does the call.  opened
\* keeps what the stop event was when the file was opened.
ConvertWrite ==
    /\ bilingual.pc = "write"
    /\ \/ bilingual' = [ConversionReturns(bilingual, "True") EXCEPT
                            !.output_file = "new",
                            !.opened = IF bilingual.stop_event THEN "stopped" ELSE "running"]
       \/ bilingual' = ConversionReturns(bilingual, "raised")
    /\ UNCHANGED <<input_file, batch_size, max_workers, service, max_runs, polisher,
                   corrector, client, review, repair, job>>

\* stop_bilingual_conversion: bilingual_stop_event.set()
StopBilingualConversion ==
    /\ bilingual.pc \in {"parse", "loop", "write"}
    /\ ~bilingual.stop_event
    /\ bilingual' = [bilingual EXCEPT !.stop_event = TRUE]
    /\ UNCHANGED <<input_file, batch_size, max_workers, service, max_runs, polisher,
                   corrector, client, review, repair, job>>

NextBilingual ==
    \/ ConvertParse
    \/ ConvertCollect
    \/ ConvertFilter
    \/ ConvertWrite
    \/ StopBilingualConversion

SpecBilingual == InitBilingual /\ [][NextBilingual]_vars

(***************************************************************************)
(* Properties of the polishing job.                                        *)
(***************************************************************************)

\* the records a reader finds in the merged output file
OutEntries == ParseSrtFile(output_file.content)

\* the job has returned without a failed write or mark
ReturnedNoIoFail == phase = "returned" /\ ~hist.ioFail

\* the words of a text
WordsOf(t) == {t[n].a : n \in {m \in 1..Len(t) : t[m].k = "w"}}

\* C1: when the remote client yields no result for every call, the merged
\* output holds every input record with exactly its input text, and no
\* output record has empty text.
C1_FallbackIsIdentity ==
    (ReturnedNoIoFail /\ service = "silent") =>
        /\ \A i \in 1..Len(entries) : \E j \in 1..Len(OutEntries) :
              /\ OutEntries[j].number = entries[i].number
              /\ OutEntries[j].content = entries[i].content
        /\ \A j \in 1..Len(OutEntries) : OutEntries[j].content # <<>>

\* C2: every batch in the completed set, in memory, persisted, or recovered
\* by a resume=true run, has a completely written artifact file, whatever
\* the interleaving of the workers and wherever the process was terminated.
C2_CompletedHasFullArtifact ==
    \A k \in completed \cup progress_file :
        batch_files[k].exists /\ batch_files[k].full

\* C3: when every response parses cleanly into uncontaminated texts, the
\* merged output has exactly the input's sequence numbers, one record per
\* number, in ascending order.
C3_CleanRunKeepsNumbers ==
    (ReturnedNoIoFail /\ service = "clean") =>
        /\ Len(OutEntries) = Len(entries)
        /\ \A i \in 1..Len(entries) : OutEntries[i].number = entries[i].number

\* C4: polish_subtitle_batch returns exactly end-start records, the i-th
\* with the sequence number of input record start+i, for every sequence of
\* responses: the results gathered for a batch always cover its records
\* from the batch start up to the part still to be polished.
C4_BatchResultCoversRecords ==
    \A w \in 1..MaxWorkers :
        wk[w].pc \in {"call", "strict", "strictcall", "write", "mark"} =>
            LET b0 == BatchStart(wk[w].batch, batch_size)
                upto == IF wk[w].work = <<>>
                        THEN BatchEnd(entries, wk[w].batch, batch_size)
                        ELSE Head(wk[w].work).s
            IN  /\ Len(wk[w].result) = upto - b0
                /\ \A i \in 1..Len(wk[w].result) :
                      wk[w].result[i].number = entries[b0 + i].number

\* a batch of three records was split after an exception and polished
\* record by record, the last record keeping its original content
C4_Witness ==
    \E w \in 1..MaxWorkers :
        /\ wk[w].pc = "write"
        /\ Len(wk[w].result) = 3
        /\ wk[w].result[2].content = <<Wd(1), Pd>>
        /\ wk[w].result[1].content = <<Wd(2)>>

\* C6: a response chunk with a timestamp range is never used, in whole or
\* in part, as a record's text of the final output (Wd(3) is text that only
\* such a chunk carries).
C6_TimecodeChunkNeverUsed ==
    phase = "returned" =>
        \A j \in 1..Len(OutEntries) : 3 \notin WordsOf(OutEntries[j].content)

\* C7: running a job again with resume=true, after a run that completed
\* every batch, calls the service for nothing, rewrites no artifact and
\* leaves the output file byte-identical.
C7_ResumeRerunIdentical ==
    (phase = "returned" /\ resume /\ hist.prevAll) =>
        /\ output_file.content = hist.prevOutput.content
        /\ hist.called = {}
        /\ hist.opened = {}

C7_Witness ==
    /\ phase = "returned" /\ resume /\ hist.prevAll /\ run = 2
    /\ Len(OutEntries) = 2

\* C8: a resume=true job makes no remote call for and does not rewrite the
\* artifact of a batch completed at job start, and when it returns it has
\* processed exactly the other batches.
C8_ResumeSkipsCompleted ==
    (run >= 1 /\ resume) =>
        /\ hist.called \cap hist.atStart = {}
        /\ hist.opened \cap hist.atStart = {}
        /\ phase = "returned" =>
              hist.called = (1..TotalBatches(entries, batch_size)) \ hist.atStart

C8_Witness ==
    /\ phase = "returned" /\ resume /\ run = 2
    /\ hist.atStart = {1}
    /\ hist.called = {2}

C10_EveryRecordInOutput ==
    phase = "returned" =>
        \A i \in 1..Len(entries) :
            Cardinality({j \in 1..Len(OutEntries) :
                            OutEntries[j].number = entries[i].number}) = 1

\* C5: after a polishing or a correction job, every sequence number of both
\* the input and the output file has the same start and end time in both,
\* whatever the remote service returned.
C5_TimestampsPreserved ==
    /\ phase = "returned" =>
          TimeMismatches(ParseSrtFile(input_file), OutEntries) = {}
    /\ corrector.phase = "returned" =>
          TimeMismatches(ParseSrtFile(input_file),
                         ParseSrtFile(corrector.output.content)) = {}


(***************************************************************************)
(* Properties of the correction job.                                       *)
(***************************************************************************)

\* the records a reader finds in the corrector's output file
CorrectorOutEntries == ParseSrtFile(corrector.output.content)

\* C11: a correction job that returns success has written an output whose
\* sequence numbers are exactly those of the input, each once, in ascending
\* order, whatever the remote service did.
C11_CorrectorOutputNumbers ==
    corrector.phase = "returned" =>
        /\ Len(CorrectorOutEntries) = Len(corrector.entries)
        /\ \A i \in 1..Len(corrector.entries) :
              CorrectorOutEntries[i].number = corrector.entries[i].number

\* C12: a record for which the client gave no result in any attempt is in
\* the output with its original text.
C12_NoResultKeepsOriginalText ==
    corrector.phase = "returned" =>
        \A b \in corrector.failed :
            \A i \in (BatchStart(b, batch_size) + 1)..BatchEnd(corrector.entries, b, batch_size) :
                NeedsCorrection(corrector.entries[i].content) =>
                    \E j \in 1..Len(CorrectorOutEntries) :
                        /\ CorrectorOutEntries[j].number = corrector.entries[i].number
                        /\ CorrectorOutEntries[j].content = corrector.entries[i].content

\* the numbers of a sequence of records never go down
Ascending(es) == \A i \in 1..(Len(es) - 1) : es[i].number <= es[i + 1].number

\* C15: in whatever order the batches of a job completed, the records of
\* the output file of a polishing job and of a correction job are in
\* ascending order of their numbers.
C15_OutputAscending ==
    /\ phase = "returned" => Ascending(OutEntries)
    /\ corrector.phase = "returned" => Ascending(CorrectorOutEntries)

\* C16: for every sequence of well-formed records, writing them, parsing
\* the file and writing the parsed records gives the file again, for the
\* polisher's writer and for the corrector's.
C16_RenderParseRender ==
    phase = "rendered" =>
        /\ WriteSrtEntries(ParseSrtFile(output_file.content)) = output_file.content
        /\ WriteSrtFile(ParseSrtFile(corrector.output.content)) = corrector.output.content

(***************************************************************************)
(* Properties of the verification.                                         *)
(***************************************************************************)

\* C14: once the merge has completed, polish_srt_file returns True whether
\* the verification reports perfect, reports not perfect or fails, and the
\* verification leaves the output file, the batch artifacts and the
\* progress store as they are.
C14_VerificationNeverBlocks ==
    [][phase = "merged" =>
          /\ phase' = "returned"
          /\ UNCHANGED <<output_file, batch_files, progress_file, completed>>]_vars

\* the job returned True with a summary that counts a missing record
C14_Witness ==
    /\ phase = "returned"
    /\ ~last_verify_summary.perfect
    /\ last_verify_summary.total_source = 2
    /\ last_verify_summary.missing_count = 1

\* the numbers of a file are unique (the Record model of the design)
UniqueNumbers(es) == \A i, j \in 1..Len(es) : es[i].number = es[j].number => i = j

C19_DroppedRecordReportedMissing ==
    (/\ input_file \in DamagedFiles
     /\ phase = "returned"
     /\ last_verify_summary.total_source > 0)
        => /\ last_verify_summary.missing_count >= 1
           /\ ~last_verify_summary.perfect

(***************************************************************************)
(* Properties of the corrector's API client.                               *)
(***************************************************************************)

\* the failure of the last request of a call that ended without a result
LastFailure == client.failures[Len(client.failures)]

\* C17: a client call makes at most MAX_API_RETRIES requests, waits
\* min(2^a, 10) seconds after its failed attempt number a (from 0), and ends
\* on a transport failure or a malformed response envelope only when
\* MAX_API_RETRIES requests have been made.
C17_RetriesUntilExhausted ==
    phase = "client" =>
        /\ client.requests <= MAX_API_RETRIES
        /\ \A a \in 0..(Len(client.waits) - 1) :
              client.waits[a + 1] =
                  CHOOSE m \in {2 ^ a, 10} : \A x \in {2 ^ a, 10} : m <= x
        /\ (/\ client.pc = "done"
            /\ client.result.t # "parts"
            /\ LastFailure \in TransportFailures \cup EnvelopeFailures)
               => client.requests = MAX_API_RETRIES

\* C18: a client call never raises: when it ends after a failure of the
\* request or on a malformed or unexpected body, it has returned the
\* no-result sentinel (None, or a list of n None for a batch of n records).
C18_ClientNeverRaises ==
    (phase = "client" /\ client.pc = "done" /\ client.result.t # "parts") =>
        /\ client.result.t = "none"
        /\ client.result.a = IF client.single THEN NoneTxt
                             ELSE [i \in 1..client.n |-> NoneTxt]

(***************************************************************************)
(* Properties of the review.                                               *)
(***************************************************************************)

\* C20: after a save of the review, the corrected file holds the records it
\* held before (as many, with the same numbers and times), a record under
\* review has the text its disposition chooses, and any other record has
\* the text it had.
C20_SaveWritesChosenTexts ==
    (phase = "review" /\ review.saved) =>
        LET before == ParseSrtFile(review.before)
            after == ParseSrtFile(review.corrected_file)
            Key(e) == <<e.number, e.start_time, e.end_time>>
            Under(n) == {i \in 1..Len(review.entries) : review.entries[i].number = n}
        IN  /\ Len(after) = Len(before)
            /\ {Key(after[i]) : i \in 1..Len(after)} = {Key(before[i]) : i \in 1..Len(before)}
            /\ \A i \in 1..Len(after) :
                  IF Under(after[i].number) # {}
                  THEN \A k \in Under(after[i].number) :
                          after[i].content =
                              IF review.entries[k].current_status = "original"
                              THEN review.entries[k].original_content
                              ELSE IF review.entries[k].current_status = "edited"
                              THEN review.entries[k].edited_content
                              ELSE review.entries[k].corrected_content
                  ELSE \E j \in 1..Len(before) :
                          /\ before[j].number = after[i].number
                          /\ before[j].content = after[i].content

(***************************************************************************)
(* Properties of polish_subtitle_batch and of the worker pool.             *)
(***************************************************************************)

\* C21: every record of a polished batch result has a text that is not
\* empty (and is not None), whatever the chunks of the response were.
C21_ResultTextNeverEmpty ==
    \A w \in 1..MaxWorkers :
        \A i \in 1..Len(wk[w].result) :
            /\ wk[w].result[i].content # <<>>
            /\ wk[w].result[i].content # NoneTxt

\* the number of records of a frame of work
Size(f) == f.e - f.s

\* the most steps a call of polish_subtitle_batch on n records can take:
\* one remote call for a single record, else three for each of its attempts
\* (the first call, the lowering of the temperature, the strict call) and
\* then those of the two halves of a split
RECURSIVE MostSteps(_)
MostSteps(n) ==
    IF n <= 1 THEN 1
    ELSE 3 * (MaxBatchRetries + 1) + MostSteps(n \div 2) + MostSteps(n - n \div 2)

\* the most steps worker 1 can still take for its batch
RECURSIVE SumMostSteps(_)
SumMostSteps(work) ==
    IF work = <<>> THEN 0 ELSE MostSteps(Size(Head(work))) + SumMostSteps(Tail(work))
StepsLeft ==
    IF wk[1].work = <<>> THEN 0
    ELSE SumMostSteps(wk[1].work)
         - (IF Size(Head(wk[1].work)) > 1
            THEN 3 * wk[1].retry + (CASE wk[1].pc = "strict" -> 1
                                      [] wk[1].pc = "strictcall" -> 2
                                      [] OTHER -> 0)
            ELSE 0)

\* C22: a call of polish_subtitle_batch ends.  The whole batch is requested
\* again at most MaxBatchRetries times, an attempt makes at most two remote
\* calls (the first call is followed by the strict call, a new attempt, a
\* split or the result; the strict call by a new attempt, a split or the
\* result), a split replaces a frame by two frames that are not empty,
\* are smaller and cover it, and every step lowers a bound on the steps
\* that can still follow, which is 0 only when the result is there.
C22_BatchCallTerminates ==
    /\ [](/\ wk[1].retry <= MaxBatchRetries
          /\ StepsLeft >= 0
          /\ (StepsLeft = 0) = (wk[1].pc = "write")
          /\ wk[1].pc \in {"call", "strict", "strictcall", "write"})
    /\ [][StepsLeft' < StepsLeft]_vars
    /\ [][wk[1].pc = "strict" =>
            /\ wk'[1].pc = "strictcall"
            /\ wk'[1].retry = wk[1].retry /\ wk'[1].work = wk[1].work
            /\ hist' = hist]_vars
    /\ [][wk[1].pc = "strictcall" =>
            \/ wk'[1].pc = "call" /\ wk'[1].retry = wk[1].retry + 1
                  /\ wk'[1].work = wk[1].work
            \/ wk'[1].pc = "call" /\ Len(wk'[1].work) = Len(wk[1].work) + 1
            \/ Len(wk'[1].work) = Len(wk[1].work) - 1]_vars
    /\ [][Len(wk'[1].work) > Len(wk[1].work) =>
            LET f == Head(wk[1].work)
                a == wk'[1].work[1]
                b == wk'[1].work[2]
            IN  /\ Size(f) > 1
                /\ a.s = f.s /\ a.e = b.s /\ b.e = f.e
                /\ Size(a) >= 1 /\ Size(b) >= 1
                /\ Size(a) < Size(f) /\ Size(b) < Size(f)
                /\ Tail(Tail(wk'[1].work)) = Tail(wk[1].work)]_vars

\* a sub-batch of two records, made by a split, is at its retry ceiling and
\* its strict call is to be answered
C22_Witness ==
    /\ phase = "workers"
    /\ wk[1].pc = "strictcall"
    /\ wk[1].retry = MaxBatchRetries
    /\ wk[1].work = <<[s |-> 1, e |-> 3]>>
    /\ Len(wk[1].result) = 1

\* C23: whenever no strict request is in flight the temperature of the
\* shared client is the caller's, and every first request of a batch was
\* sent with the caller's temperature.
C23_TemperatureIsCallers ==
    /\ hist.firstTemps \subseteq {CallerTemperature}
    /\ (\A w \in 1..MaxWorkers : wk[w].pc # "strictcall")
          => temperature = CallerTemperature

(***************************************************************************)
(* Properties of the batch life cycle.                                     *)
(***************************************************************************)

\* C24: in every step that is not the start of a run with resume=false, a
\* batch of the persisted completed set stays in it, and no worker takes a
\* batch of the persisted completed set.
C24_CompletedStaysCompleted ==
    [][(run' = run \/ resume') =>
          /\ progress_file \subseteq progress_file'
          /\ \A w \in 1..MaxWorkers :
                (wk[w].pc = "idle" /\ wk'[w].pc = "call")
                    => wk'[w].batch \notin progress_file]_vars

\* C25: a batch that a worker had taken and not yet marked when the process
\* was ended is not in the completed set the next resume=true run starts
\* from, and that run, once it has merged, has made a remote call for it.
C25_InterruptedIsPendingAgain ==
    (resume /\ phase \in {"workers", "merged", "returned", "failed"})
        => /\ hist.interrupted \cap hist.atStart = {}
           /\ phase \in {"merged", "returned"} => hist.interrupted \subseteq hist.called

\* C26: for L records and batch size B the job has ceil(L/B) batches; the
\* ranges [(k-1)B, min(kB, L)) of the batches k = 1..total are not empty and
\* every index 0..L-1 lies in exactly one of them; a worker that takes
\* batch k starts polish_subtitle_batch on exactly that range.
RangeOf(k) ==
    LET lo == (k - 1) * batch_size
        hi == IF k * batch_size < Len(entries) THEN k * batch_size ELSE Len(entries)
    IN  [s |-> lo, e |-> hi]

C26_BatchesPartitionRecords ==
    /\ [](phase # "init" /\ entries # <<>> =>
            LET L == Len(entries)
                total == TotalBatches(entries, batch_size)
            IN  /\ total * batch_size >= L
                /\ (total - 1) * batch_size < L
                /\ \A k \in 1..total : RangeOf(k).s < RangeOf(k).e
                /\ \A i \in 0..(L - 1) :
                      Cardinality({k \in 1..total :
                                      RangeOf(k).s <= i /\ i < RangeOf(k).e}) = 1
                /\ \A k \in 1..Len(queue) :
                      queue[k] \in 1..total)
    /\ [][\A w \in 1..MaxWorkers :
             (wk[w].pc = "idle" /\ wk'[w].pc = "call")
                 => wk'[w].work = <<RangeOf(wk'[w].batch)>>]_vars

\* a worker has taken the last batch of three records in batches of two
C26_Witness ==
    /\ Len(entries) = 3
    /\ batch_size = 2
    /\ \E w \in 1..MaxWorkers :
          wk[w].pc = "call" /\ wk[w].batch = 2 /\ wk[w].work = <<[s |-> 2, e |-> 3]>>

\* the batches the workers are processing, and those still to start
Busy == {w \in 1..MaxWorkers : wk[w].pc # "idle"}
InProcess == {wk[w].batch : w \in Busy}
Waiting == {queue[i] : i \in 1..Len(queue)}

\* C27: while the pool works, at most max_workers batches are in process
\* and no two workers hold the same batch; every batch that was pending at
\* the start of the run is waiting, in process with one worker, or done,
\* never two of these; a batch in process stays with its worker until
\* process_batch returns after the write or the mark; a batch is taken
\* off the waiting ones when it starts and none is added; when the run has
\* merged, a call was made for every pending batch.
C27_EachPendingBatchOnce ==
    /\ [](phase = "workers" =>
            LET pending == (1..TotalBatches(entries, batch_size)) \ hist.atStart
            IN  /\ Cardinality(Busy) <= max_workers
                /\ \A v, w \in Busy : v # w => wk[v].batch # wk[w].batch
                /\ \A i, j \in 1..Len(queue) : i # j => queue[i] # queue[j]
                /\ Waiting \cup InProcess \cup hist.called = pending
                /\ Waiting \cap (InProcess \cup hist.called) = {})
    /\ [](phase \in {"merged", "returned"} =>
            hist.called = (1..TotalBatches(entries, batch_size)) \ hist.atStart)
    /\ [][phase = "workers" /\ phase' = "workers" =>
            /\ Waiting' \subseteq Waiting
            /\ \A w \in 1..MaxWorkers :
                  /\ (wk[w].pc # "idle" /\ wk'[w].pc # "idle")
                        => wk'[w].batch = wk[w].batch
                  /\ (wk[w].pc # "idle" /\ wk'[w].pc = "idle")
                        => wk[w].pc \in {"write", "mark"}
                  /\ (wk[w].pc = "idle" /\ wk'[w].pc # "idle")
                        => /\ wk'[w].batch \in Waiting
                           /\ wk'[w].batch \notin Waiting'
                           /\ wk'[w].batch \notin InProcess \cup hist.called]_vars

\* two workers are processing two batches while a third batch waits
C27_Witness ==
    /\ phase = "workers"
    /\ max_workers = 2
    /\ Busy = {1, 2}
    /\ wk[1].batch # wk[2].batch
    /\ queue # <<>>

\* C28: while auto_fix_and_repolish is between its read and its write of
\* the progress file no other writer changes the file, and its write keeps
\* every completed mark that was added to the file since its read.
C28_ProgressUpdatesExclusive ==
    /\ [][(repair.pc = "read" /\ repair'.pc = "read") => progress_file' = progress_file]_vars
    /\ [][(repair.pc = "read" /\ repair'.pc = "idle")
             => (progress_file \ repair.completed) \subseteq progress_file']_vars

(***************************************************************************)
(* Properties of the recovery of the chunks.                               *)
(***************************************************************************)

\* C29: when a worker waits for the answer of the strict request, then for
\* every text answer the service can give that is no array of the right
\* length, the chunks the batch goes on with are those of the positional
\* split of the answer.
C29_SplitHeuristicAfterDecodes ==
    \A w \in 1..MaxWorkers :
        (phase = "workers" /\ wk[w].pc = "strictcall") =>
            LET n == Head(wk[w].work).e - Head(wk[w].work).s
            IN  \A r \in BatchResponses(n, service) :
                    (r.t = "text" /\ ~ParseJsonArray(r, n).ok)
                        => StrictContents(r, n) = parse_polished_result(r, n)

\* a text that holds a timestamp range, or a line that is a number alone
Contaminated(text) ==
    \/ \E n \in 1..Len(text) : text[n].k = "tc"
    \/ \E n \in 1..Len(SplitLines(text)) :
          LET line == Strip(SplitLines(text)[n])
          IN  line # <<>> /\ \A k \in 1..Len(line) : line[k].k = "d"

\* C30: no record a correction job has built for its output holds a text
\* with a timestamp range or with a number alone on a line, unless that
\* text is the formatted text of the input record and not a chunk of an
\* answer.
C30_CorrectorRejectsContamination ==
    \A b \in 1..MaxLen :
        \A i \in 1..Len(corrector.batch_results[b]) :
            LET e == corrector.batch_results[b][i]
            IN  Contaminated(e.content) =>
                    \E j \in 1..Len(corrector.entries) :
                        /\ corrector.entries[j].number = e.number
                        /\ FormatSubtitleContent(corrector.entries[j].content) = e.content

\* every record of the file has a number of its own
NoNumberTwice(content) == UniqueNumbers(ParseSrtFile(content))

\* C36: once auto_verify_result has judged a pair of files in each of which
\* no number occurs twice, its verdict perfect is the verdict check_srt_files
\* returns for the same pair.
C36_CheckerAgreesWithAutoVerify ==
    (phase = "verified" /\ NoNumberTwice(input_file) /\ NoNumberTwice(output_file.content)) =>
        last_verify_summary.perfect = CheckSrtFiles(input_file, output_file.content)
C36_Witness ==
    /\ phase = "verified"
    /\ NoNumberTwice(input_file) /\ NoNumberTwice(output_file.content)
    /\ Len(ParseSrtFile(input_file)) = 2
    /\ Len(ParseSrtFile(output_file.content)) = 2
    /\ Numbers(ParseSrtFile(input_file)) = Numbers(ParseSrtFile(output_file.content))
    /\ ParseSrtFile(input_file)[1].number # ParseSrtFile(output_file.content)[1].number
    /\ ~last_verify_summary.perfect
    /\ ~CheckSrtFiles(input_file, output_file.content)
C36_WitnessPerfect ==
    /\ phase = "verified"
    /\ Len(ParseSrtFile(input_file)) = 2
    /\ Len(ParseSrtFile(output_file.content)) = 2
    /\ ParseSrtFile(input_file)[1].number # ParseSrtFile(output_file.content)[1].number
    /\ last_verify_summary.perfect
    /\ CheckSrtFiles(input_file, output_file.content)

\* C35: when a correction job in true batch mode has returned, the counters
\* corrected_entries, unchanged_entries and error_entries add up to
\* total_entries, however the threads of the pool took their turns and
\* whichever batches failed.
C35_StatsAddUp ==
    corrector.phase = "returned" =>
        corrector.stats.corrected_entries + corrector.stats.unchanged_entries
            + corrector.stats.error_entries = corrector.stats.total_entries

\* the sections of a context with the label tag
Sections(c, tag) == {i \in 1..Len(c) : c[i].tag = tag}

\* C32: every context string sent with a single-record request has exactly
\* one current-task section, which shows the number and text of the target
\* record; it has a preceding-reference section exactly when a record
\* precedes the target and a following-reference section exactly when one
\* follows it; and the numbers in those two labels are the numbers of the
\* records that precede and follow the target in the file.
C32_ContextIdentifiesNeighbours ==
    \A c \in hist.contexts :
        /\ Cardinality(Sections(c, "current")) = 1
        /\ \E t \in 1..Len(entries) :
              /\ \A i \in Sections(c, "current") :
                    c[i].number = entries[t].number /\ c[i].content = entries[t].content
              /\ (Sections(c, "prev") # {}) <=> (t > 1)
              /\ (Sections(c, "next") # {}) <=> (t < Len(entries))
              /\ \A i \in Sections(c, "prev") : c[i].number = entries[t - 1].number
              /\ \A i \in Sections(c, "next") : c[i].number = entries[t + 1].number

\* the same without the two conjuncts on the numbers in the labels
C32_SectionsMatchNeighbours ==
    \A c \in hist.contexts :
        /\ Cardinality(Sections(c, "current")) = 1
        /\ \E t \in 1..Len(entries) :
              /\ \A i \in Sections(c, "current") :
                    c[i].number = entries[t].number /\ c[i].content = entries[t].content
              /\ (Sections(c, "prev") # {}) <=> (t > 1)
              /\ (Sections(c, "next") # {}) <=> (t < Len(entries))
              /\ \A i \in Sections(c, "prev") : c[i].content = entries[t - 1].content
              /\ \A i \in Sections(c, "next") : c[i].content = entries[t + 1].content

\* a done message or an error message
Terminal(m) ==
    m.type \in {"corrector_done", "corrector_error", "polisher_done", "polisher_error"}

\* the positions of the terminal messages on the queue
Terminals == {i \in 1..Len(job.queue) : Terminal(job.queue[i])}

\* C37: a run of run_corrector_job or run_polisher_job that has ended has
\* put exactly one terminal message (done or error) on the queue, and no
\* message of a run is put on the queue after its terminal message.
C37_ExactlyOneTerminalMessage ==
    /\ job.pc \in {"returned", "killed"} => Cardinality(Terminals) = 1
    /\ \A i \in Terminals : i = Len(job.queue)

\* the same for the runs whose function has returned; a run that was
\* stopped has put at most one terminal message
C37_OneTerminalMessageOnReturn ==
    /\ job.pc = "returned" => Cardinality(Terminals) = 1
    /\ Cardinality(Terminals) <= 1
    /\ \A i \in Terminals : i = Len(job.queue)
C37_WitnessReturned ==
    /\ job.pc = "returned"
    /\ Len(job.queue) = 3
    /\ job.queue[2].type = "corrector_progress"
    /\ job.queue[3] = Message("corrector_done", TRUE)

\* C39: a call of convert_to_bilingual during which the stop event was set
\* before the output file was opened for writing (or that never opened it)
\* has returned False and has left the output file as it was, absent or
\* with its old content.
C39_StopBeforeOpenLeavesOutput ==
    (/\ bilingual.pc = "returned"
     /\ \/ bilingual.opened = "stopped"
        \/ bilingual.opened = "no" /\ bilingual.stop_event)
        => (bilingual.result = "False" /\ bilingual.output_file = bilingual.before)

\* the same for a stop event that is set when a turn of the loop tests it
C39_StopSeenByLoopLeavesOutput ==
    [][(bilingual.pc = "loop" /\ bilingual.completed < bilingual.original
           /\ bilingual.stop_event /\ bilingual'.pc # "loop")
          => (/\ bilingual'.pc = "returned"
              /\ bilingual'.result = "False"
              /\ bilingual'.output_file = bilingual.before)]_vars

\* a text that holds a separator marker
HasMarker(text) == \E n \in 1..Len(text) : text[n].k = "sep"

\* chunks of a polishing answer that restate a separator marker
MarkedChunks ==
    {<<Wd(2), NL, Sep(1), NL, Wd(2)>>, <<Sep(2), NL, Wd(2)>>, <<Wd(2), Sp, Sep(1)>>}

\* C31: no text of a record that a correction job or a polishing job has
\* accepted for its output holds a separator marker, whatever the answer of
\* the service was: separators omitted, or in another order than asked for.
C31_NoSeparatorInOutput ==
    /\ \A b \in 1..MaxLen :
          \A i \in 1..Len(corrector.batch_results[b]) :
              ~HasMarker(corrector.batch_results[b][i].content)
    /\ ~HasMarker(corrector.output.content)
    /\ ~HasMarker(output_file.content)
    /\ \A c \in MarkedChunks : ~HasMarker(CleanPolishedContent(c))

(***************************************************************************)
(* Properties of the repair of missing records.                            *)
(***************************************************************************)

\* C33: the step of auto_fix_and_repolish that resets leaves every batch of
\* a number missing from the output out of the persisted completed set and
\* without its batch file.
C33_RepairResetsBatchAndArtifact ==
    [][(repair.pc = "read" /\ repair'.pc = "idle") =>
          \A b \in repair.reset :
              /\ b \notin progress_file'
              /\ ~batch_files'[b].exists]_vars

(***************************************************************************)
(* Properties of the review session.                                       *)
(***************************************************************************)

\* C38: in every state of a review session, an entry with status
\* "corrected" has the corrected text as its edited_content, one with
\* status "original" the original text, and one with status "edited" a text
\* that is not empty; an entry has no other status.
C38_StatusMatchesEditedContent ==
    \A i \in 1..Len(review.entries) :
        LET e == review.entries[i]
        IN  /\ e.current_status \in {"corrected", "original", "edited"}
            /\ e.current_status = "corrected" => e.edited_content = e.corrected_content
            /\ e.current_status = "original" => e.edited_content = e.original_content
            /\ e.current_status = "edited" => e.edited_content # <<>>

\* a session with an edited entry and one set back to the original
C38_Witness ==
    /\ Len(review.entries) = 2
    /\ review.entries[1].current_status = "edited"
    /\ review.entries[2].current_status = "original"
    /\ review.entries[2].edited_content # review.entries[2].corrected_content

(***************************************************************************)
(* The merged output as a function of the input.                           *)
(***************************************************************************)

\* what polish_subtitle_batch returns for the records s+1..e when every
\* request gets the fixed answer: a retry gets the same chunks again, so the
\* entries are built from the chunks of the first attempt
FixedBatchEntries(es, s, e) ==
    IF e - s = 1 THEN SingleResult(es, s, FixedSingleAnswer)
    ELSE PolishedEntries(es, s, StrictContents(FixedBatchAnswer(e - s), e - s))

\* the batch files of a job whose batches are processed one after the
\* other, and the output merged from them
FixedBatchFiles(es, bs) ==
    [k \in 1..MaxLen |->
        IF k <= TotalBatches(es, bs)
        THEN File(WriteSrtEntries(FixedBatchEntries(es, BatchStart(k, bs), BatchEnd(es, k, bs))),
                  TRUE, 1)
        ELSE NoFile]

FixedOutput(es, bs) == MergeBatchFiles(FixedBatchFiles(es, bs), TotalBatches(es, bs))

\* C34: against a service whose answer depends only on the records of the
\* request, the merged output of a job without a failed write is the one
\* function of the input and the batch size, whatever the number of workers
\* and the order of their steps.
C34_OutputIndependentOfWorkers ==
    (service = "fixed" /\ phase \in {"merged", "returned"} /\ ~hist.ioFail)
        => output_file.content = FixedOutput(ParseSrtFile(input_file), batch_size)

\* two workers have processed two batches, the second finishing first, and
\* the job has merged
C34_Witness ==
    /\ service = "fixed"
    /\ phase = "merged"
    /\ ~hist.ioFail
    /\ max_workers = 2
    /\ batch_size = 2
    /\ Len(entries) = 3
    /\ batch_files[1].exists /\ batch_files[2].exists
    /\ output_file.content = FixedOutput(ParseSrtFile(input_file), batch_size)

=============================================================================
